---- MODULE Spec2Model ----
(***************************************************************************)
(* A model of the DenIM core of Deniable-IM/denim: the redis-backed buffer *)
(* store (server/src/storage/redis.rs), the server's outbound chunk       *)
(* assembly (payload_cache.rs, denim_manager.rs), the client's chunker    *)
(* (common/src/deniable/chunk.rs) and both reassembly routines.           *)
(***************************************************************************)
EXTENDS Integers, Sequences, FiniteSets, TLC

(***************************************************************************)
(* Bounds of the model.                                                    *)
(***************************************************************************)
\* fresh entries created by insert in one run (caps the history and the HINCRBY counter)
MaxInserts == 2
\* largest byte amount asked of dequeue_bytes in the store specification
MaxTake == 2
\* deniable payloads enqueued into one outgoing buffer in one run
MaxPayloads == 2
\* DenIM envelopes emitted by one endpoint in one run
MaxEnvelopes == 2
\* largest byte amount asked of dequeue_payload_data in the dequeue specification
MaxDequeueBytes == 3

(***************************************************************************)
(* Program constants.                                                      *)
(***************************************************************************)
PAGE_SIZE == 100
\* i32 values of ChunkType::Dummy and ChunkType::Final
DUMMY == 1
FINAL == 2
\* bincode sizes of an empty Vec<DenimChunk> and of a DenimChunk with no bytes
EMPTY_VEC_SIZE == 8
EMPTY_DENIMCHUNK_SIZE == 12
\* usize arithmetic wraps at USIZE_MOD and an allocation above ISIZE_MAX panics; the
\* 64 bits of the target are narrowed to 30, far above every size the model uses
USIZE_MOD == 1073741824
ISIZE_MAX == 536870911

\* field guids offered to insert and remove
Guids == {"g1", "g2", "g3"}
\* values (serialized payloads) offered to insert in the store specification
Values == {<<11, 12>>, <<21, 22, 23>>}

\* the values of q an endpoint runs with, as numerator and denominator
Qs == {<<3, 5>>, <<1, 2>>}
\* overt payload sizes offered to the server's create_denim_message
ServerSizes == {2, 4, 9}
\* overt payload sizes offered to the client's send_message
ClientSizes == {9, 29, 36, 59}
\* lengths of the serialized deniable payloads
PayloadLens == {2, 5}
\* chunk sizes the peer cuts a payload with in the reassembly specification
CutSizes == {1, 2}

VARIABLES
    store,      \* the redis keys of one queue: sorted set, metadata hash, reverse hash, index
    locked,     \* the persist-in-progress key of the queue is set
    ret,        \* what the last operation returned
    idLog,      \* history: the entry ids returned by insert for fresh guids, in call order
    firstVal,   \* history: guid -> the id and value of the insert that created its entry
    endpoint,   \* the endpoint a run follows: its role, its q and its build
    enq,        \* history: the deniable payloads enqueued into the outgoing buffer, in order
    sent,       \* history: the DenIM envelopes emitted, in order
    table,      \* the rows of the client's DeniablePayload table, in rowid order
    wire,       \* the batches of chunks still on their way to a receiving endpoint
    incoming,   \* the chunks a receiving endpoint holds back until their Final arrives
    delivered,  \* the deniable payloads a receiving endpoint has reassembled, in order
    calls,      \* per concurrent caller of the store: the call in progress and the calls done
    lockKey,    \* the persist-in-progress key with its time to live, <<>> when it does not exist
    client,     \* the client's storage: session stores, key requests sent, messages awaiting
    conn        \* the server's websocket connection of one device and its listener entry

storeVars == <<store, locked, ret, idLog, firstVal>>
denimVars == <<endpoint, enq, sent, table>>
rxVars == <<wire, incoming, delivered>>
auxVars == <<calls, lockKey, client, conn>>
vars == <<store, locked, ret, idLog, firstVal, endpoint, enq, sent, table, wire, incoming,
          delivered, calls, lockKey, client, conn>>

\* the variables a specification does not use stay as they start
AuxIdle == calls = <<>> /\ lockKey = <<>> /\ client = <<>> /\ conn = <<>>

(***************************************************************************)
(* Helpers on finite maps and sequences.                                   *)
(***************************************************************************)
EmptyMap == [x \in {} |-> 0]

MapPut(f, k, v) == [x \in (DOMAIN f) \cup {k} |-> IF x = k THEN v ELSE f[x]]

MapDel(f, k) == [x \in (DOMAIN f) \ {k} |-> f[x]]

Take(s, n) == SubSeq(s, 1, IF n < Len(s) THEN n ELSE Len(s))

Drop(s, n) == SubSeq(s, n + 1, Len(s))

RECURSIVE Flatten(_)
Flatten(ss) == IF ss = <<>> THEN <<>> ELSE Head(ss) \o Flatten(Tail(ss))

(***************************************************************************)
(* The stored value "{entry_id}:{base64(payload)}:{rank}" and its readers. *)
(***************************************************************************)
\* BASE64_STANDARD.encode / decode: an encoding with no ':' in its alphabet,
\* kept as a wrapped value so that only the decoder reads the bytes back
B64Encode(bytes) == [b64 |-> bytes]

B64Decode(text) == text.b64

create_payload_entry(id, value, order) == <<id, B64Encode(value), order>>

get_field_metadata(member) == member[1]

BytesDecode(member) == B64Decode(member[2])

get_order_metadata(member) == member[3]

(***************************************************************************)
(* The sorted set: a set of [score, member]; ZRANGE orders by score.       *)
(***************************************************************************)
MinScore(zset) == CHOOSE s \in {e.score : e \in zset} : \A e \in zset : s <= e.score

RECURSIVE ZRangeAll(_)
ZRangeAll(zset) ==
    IF zset = {} THEN <<>>
    ELSE LET e == CHOOSE x \in zset : x.score = MinScore(zset)
         IN  <<e>> \o ZRangeAll(zset \ {e})

\* ZRANGE key min max BYSCORE (min exclusive when open)
ZRangeByScore(zset, lo, hi) == ZRangeAll({e \in zset : lo <= e.score /\ e.score <= hi})

Reverse(s) == [i \in 1..Len(s) |-> s[Len(s) + 1 - i]]

ZRangeAfter_rev(zset, stop) == Reverse(ZRangeAll({e \in zset : e.score > stop}))

\* ZRANGE key (stop +inf BYSCORE
ZRangeAfter(zset, stop) == ZRangeAll({e \in zset : e.score > stop})

\* ZADD NX: an existing member is not touched
ZAddNX(zset, score, member) ==
    IF \E e \in zset : e.member = member THEN zset
    ELSE zset \cup {[score |-> score, member |-> member]}

\* ZADD: an existing member gets the new score; returns the number of members added
ZAdd(zset, score, member) ==
    {e \in zset : e.member # member} \cup {[score |-> score, member |-> member]}

EmptyStore == [queue |-> {}, meta |-> EmptyMap, rev |-> EmptyMap, counter |-> 0, indexed |-> FALSE]

(***************************************************************************)
(* redis::insert                                                           *)
(***************************************************************************)
insert_overwrite(st, guid, value) ==
    LET id == IF guid \in DOMAIN st.meta THEN st.meta[guid] ELSE st.counter + 1
    IN  [st |-> [queue   |-> {e \in st.queue : e.score # id}
                              \cup {[score |-> id, member |-> create_payload_entry(id, value, 0)]},
                 meta    |-> MapPut(st.meta, guid, id),
                 rev     |-> MapPut(st.rev, id, guid),
                 counter |-> IF guid \in DOMAIN st.meta THEN st.counter ELSE id,
                 indexed |-> TRUE],
         id |-> id, fresh |-> guid \notin DOMAIN st.meta]

insert(st, guid, value) ==
    IF guid \in DOMAIN st.meta
    THEN [st |-> st, id |-> st.meta[guid], fresh |-> FALSE]
    ELSE LET id == st.counter + 1
         IN  [st |-> [queue   |-> ZAddNX(st.queue, id, create_payload_entry(id, value, 0)),
                      meta    |-> MapPut(st.meta, guid, id),
                      rev     |-> MapPut(st.rev, id, guid),
                      counter |-> id,
                      indexed |-> TRUE],
              id |-> id, fresh |-> TRUE]

(***************************************************************************)
(* redis::remove                                                           *)
(***************************************************************************)
\* the body of the loop over field_guids, for one guid
remove_one_keep_rev(acc, guid) ==
    IF guid \notin DOMAIN acc.st.meta THEN acc
    ELSE LET id     == acc.st.meta[guid]
             values == Take(ZRangeByScore(acc.st.queue, id, id), 1)
         IN  [st |-> [acc.st EXCEPT !.queue = {e \in acc.st.queue : e.score # id},
                                    !.meta  = MapDel(acc.st.meta, guid)],
              removed |-> acc.removed \o [i \in 1..Len(values) |-> BytesDecode(values[i].member)]]

remove_one(acc, guid) ==
    IF guid \notin DOMAIN acc.st.meta THEN acc
    ELSE LET id     == acc.st.meta[guid]
             values == Take(ZRangeByScore(acc.st.queue, id, id), 1)
         IN  [st |-> [acc.st EXCEPT !.queue = {e \in acc.st.queue : e.score # id},
                                    !.meta  = MapDel(acc.st.meta, guid),
                                    !.rev   = MapDel(acc.st.rev, id)],
              removed |-> acc.removed \o [i \in 1..Len(values) |-> BytesDecode(values[i].member)]]

RECURSIVE remove_loop(_, _)
remove_loop(acc, guids) ==
    IF guids = <<>> THEN acc ELSE remove_loop(remove_one(acc, Head(guids)), Tail(guids))

remove_cleanup_never(st) == st

\* the ZCARD == 0 branch: DEL queue, DEL metadata (the counter field with it), ZREM index
remove_cleanup(st) ==
    IF st.queue = {}
    THEN [st EXCEPT !.meta = EmptyMap, !.counter = 0, !.indexed = FALSE]
    ELSE st

remove(st, guids) ==
    LET acc == remove_loop([st |-> st, removed |-> <<>>], guids)
    IN  [st |-> remove_cleanup(acc.st), removed |-> acc.removed]

(***************************************************************************)
(* redis::get_values                                                       *)
(***************************************************************************)
get_values(st, lock, stop_index) ==
    IF lock THEN [values |-> <<>>, guids |-> <<>>]
    ELSE
    LET values == Take(ZRangeAfter(st.queue, stop_index), PAGE_SIZE)
        ids    == [i \in 1..Len(values) |-> get_field_metadata(values[i].member)]
    IN  [values |-> [i \in 1..Len(values) |-> values[i].member],
         guids  |-> [i \in 1..Len(ids) |-> IF ids[i] \in DOMAIN st.rev THEN st.rev[ids[i]] ELSE ""]]

(***************************************************************************)
(* redis::get_first, update_value, dequeue_bytes                           *)
(***************************************************************************)
get_first_nolock(st, lock) ==
    IF st.queue = {} THEN [ok |-> FALSE]
    ELSE [ok |-> TRUE, value |-> ZRangeAll(st.queue)[1].member]

get_first(st, lock) ==
    IF lock THEN [ok |-> FALSE]
    ELSE IF st.queue = {} THEN [ok |-> FALSE]
    ELSE [ok |-> TRUE, value |-> ZRangeAll(st.queue)[1].member]

update_value_same_order(queue, field_id, new_value) ==
    LET found == ZRangeByScore(queue, field_id, field_id)
        value == found[1].member
        order == get_order_metadata(value)
    IN  [ok |-> TRUE, order |-> order,
         queue |-> ZAdd({e \in queue : e.member # value}, field_id,
                        create_payload_entry(field_id, new_value, order))]

update_value(queue, field_id, new_value) ==
    LET found == ZRangeByScore(queue, field_id, field_id)
    IN  IF found = <<>> THEN [ok |-> FALSE, order |-> 0, queue |-> queue]
        ELSE LET value     == found[1].member
                 order     == get_order_metadata(value)
                 afterRem  == {e \in queue : e.member # value}
                 new_entry == create_payload_entry(field_id, new_value, order - 1)
                 added     == IF \E e \in afterRem : e.member = new_entry THEN 0 ELSE 1
             IN  IF added # 1
                 THEN [ok |-> FALSE, order |-> order, queue |-> ZAdd(afterRem, field_id, new_entry)]
                 ELSE [ok |-> TRUE, order |-> order, queue |-> ZAdd(afterRem, field_id, new_entry)]

\* the result of an Err(..) return: no data, and the store as the failed call left it
DequeueErr(st) == [st |-> st, data |-> <<>>, taken |-> 0, flag |-> DUMMY, err |-> TRUE]

\* bytes_amount < value.len(): the head keeps its tail, upd is what update_value returned
dequeue_partial(st, bytes_amount, value, upd) ==
    IF ~upd.ok THEN DequeueErr([st EXCEPT !.queue = upd.queue])
    ELSE [st |-> [st EXCEPT !.queue = upd.queue], data |-> Take(value, bytes_amount),
          taken |-> bytes_amount, flag |-> upd.order, err |-> FALSE]

\* the head is taken whole: removed is what remove returned for its guid
dequeue_whole(removed) ==
    [st |-> removed.st, data |-> Flatten(removed.removed),
     taken |-> Len(Flatten(removed.removed)), flag |-> FINAL, err |-> FALSE]

dequeue_head_keep_taken(st, bytes_amount, field_id, value) ==
    IF bytes_amount < Len(value)
    THEN dequeue_partial(st, bytes_amount, value, update_value(st.queue, field_id, value))
    ELSE IF field_id \in DOMAIN st.rev THEN dequeue_whole(remove(st, <<st.rev[field_id]>>))
    ELSE DequeueErr(st)

\* the head entry has id field_id and holds value
dequeue_head(st, bytes_amount, field_id, value) ==
    IF bytes_amount < Len(value)
    THEN dequeue_partial(st, bytes_amount, value,
                         update_value(st.queue, field_id, Drop(value, bytes_amount)))
    ELSE IF field_id \in DOMAIN st.rev THEN dequeue_whole(remove(st, <<st.rev[field_id]>>))
    ELSE DequeueErr(st)

\* first is what get_first returned
dequeue_first(st, bytes_amount, first) ==
    IF ~first.ok
    THEN [st |-> st, data |-> <<>>, taken |-> 0, flag |-> DUMMY, err |-> FALSE]
    ELSE dequeue_head(st, bytes_amount, get_field_metadata(first.value),
                      BytesDecode(first.value))

dequeue_bytes(st, lock, bytes_amount) == dequeue_first(st, bytes_amount, get_first(st, lock))

(***************************************************************************)
(* The store specification: one queue under insert, remove, get_values,    *)
(* dequeue_bytes and the persist lock.                                     *)
(***************************************************************************)
NoRet == [op |-> "none"]

StoreInit ==
    /\ store = EmptyStore
    /\ locked = FALSE
    /\ ret = NoRet
    /\ idLog = <<>>
    /\ firstVal = EmptyMap
    /\ endpoint = [role |-> "store"]
    /\ enq = <<>>
    /\ sent = <<>>
    /\ table = <<>>
    /\ wire = <<>>
    /\ incoming = <<>>
    /\ delivered = <<>>
    /\ AuxIdle

Insert(guid, value) ==
    /\ guid \in DOMAIN store.meta \/ Len(idLog) < MaxInserts
    /\ LET r == insert(store, guid, value)
       IN  /\ store' = r.st
           /\ ret' = [op |-> "insert", guid |-> guid, value |-> value, id |-> r.id,
                      fresh |-> r.fresh]
           /\ idLog' = IF r.fresh THEN Append(idLog, r.id) ELSE idLog
           /\ firstVal' = IF r.fresh THEN MapPut(firstVal, guid, [id |-> r.id, value |-> value])
                          ELSE firstVal
           /\ enq' = IF r.fresh THEN Append(enq, [guid |-> guid, value |-> value, n |-> Len(enq) + 1])
                     ELSE enq
    /\ UNCHANGED <<locked, endpoint, sent, table, rxVars, auxVars>>

Remove(guids) ==
    /\ LET r == remove(store, guids)
       IN  /\ store' = r.st
           /\ ret' = [op |-> "remove", guids |-> guids, removed |-> r.removed]
    /\ UNCHANGED <<locked, idLog, firstVal, denimVars, rxVars, auxVars>>

GetValues(stop_index) ==
    /\ LET r == get_values(store, locked, stop_index)
       IN  ret' = [op |-> "get_values", stop |-> stop_index, values |-> r.values,
                   guids |-> r.guids, lock |-> locked]
    /\ UNCHANGED <<store, locked, idLog, firstVal, denimVars, rxVars, auxVars>>

DequeueBytes(n) ==
    /\ \E r \in {dequeue_bytes(store, locked, n)} :
           /\ store' = r.st
           /\ ret' = [op |-> "dequeue_bytes", n |-> n, data |-> r.data, taken |-> r.taken,
                      flag |-> r.flag, err |-> r.err, lock |-> locked]
    /\ UNCHANGED <<locked, idLog, firstVal, denimVars, rxVars, auxVars>>

\* MessageCache::lock_queue_for_persistence: SETEX key 30 "1"
LockQueue ==
    /\ locked' = TRUE
    /\ ret' = [op |-> "lock"]
    /\ UNCHANGED <<store, idLog, firstVal, denimVars, rxVars, auxVars>>

\* MessageCache::unlock_queue_for_persistence (DEL key), or the key's 30 s TTL running out
UnlockQueue ==
    /\ locked
    /\ locked' = FALSE
    /\ ret' = [op |-> "unlock"]
    /\ UNCHANGED <<store, idLog, firstVal, denimVars, rxVars, auxVars>>

StoreNext ==
    \/ \E g \in Guids, v \in Values : Insert(g, v)
    \/ \E g \in Guids : Remove(<<g>>)
    \/ \E g \in Guids, h \in Guids : g # h /\ Remove(<<g, h>>)
    \/ \E s \in {-1, 1} : GetValues(s)
    \/ \E n \in 1..MaxTake : DequeueBytes(n)
    \/ LockQueue
    \/ UnlockQueue

Spec == StoreInit /\ [][StoreNext]_vars

(***************************************************************************)
(* Properties of the buffer store.                                         *)
(***************************************************************************)
IsSuffix(s, t) == Len(s) <= Len(t) /\ s = SubSeq(t, Len(t) - Len(s) + 1, Len(t))

QueueIds(st) == {get_field_metadata(e.member) : e \in st.queue}

EntriesOf(st, id) == {e \in st.queue : get_field_metadata(e.member) = id}

\* C7: insert(queue, guid, v) called again with a guid that is already in the queue
\* returns the entry id of the first call and leaves exactly one entry for the guid,
\* which holds (what is left of) the value of the first call.
C7_IdempotentInsert ==
    (ret.op = "insert" /\ ~ret.fresh) =>
        /\ ret.id = firstVal[ret.guid].id
        /\ ret.guid \in DOMAIN store.meta /\ store.meta[ret.guid] = ret.id
        /\ Cardinality(EntriesOf(store, ret.id)) = 1
        /\ \A e \in EntriesOf(store, ret.id) :
               IsSuffix(BytesDecode(e.member), firstVal[ret.guid].value)

\* a second insert of a guid, with another value than the first, has returned
C7_Witness ==
    /\ ret.op = "insert" /\ ~ret.fresh
    /\ ret.value # firstVal[ret.guid].value
    /\ Cardinality(store.queue) >= 2

\* C8: forward (guid -> id) and reverse (id -> guid) metadata are inverse bijections
\* over exactly the entries that are in the queue.
C8_MetadataBijection ==
    /\ DOMAIN store.rev = QueueIds(store)
    /\ {store.meta[g] : g \in DOMAIN store.meta} = QueueIds(store)
    /\ \A g \in DOMAIN store.meta : store.rev[store.meta[g]] = g
    /\ \A i \in DOMAIN store.rev :
           store.rev[i] \in DOMAIN store.meta /\ store.meta[store.rev[i]] = i
    /\ Cardinality(store.queue) = Cardinality(QueueIds(store))

\* a remove has taken an entry out of a queue that still holds a partly consumed one
C8_Witness ==
    /\ ret.op = "remove" /\ ret.removed # <<>>
    /\ \E e \in store.queue : get_order_metadata(e.member) < 0

\* C9 (as claimed): the entry ids insert returns for fresh guids are strictly
\* increasing over the whole life of the queue.
C9_IdsStrictlyIncreasing ==
    \A i, j \in DOMAIN idLog : i < j => idLog[i] < idLog[j]

\* the fresh inserts whose entries the queue still holds, in the order they were made
LiveInserts ==
    SelectSeq(enq, LAMBDA e : /\ e.guid \in DOMAIN store.meta
                              /\ \A k \in DOMAIN enq : enq[k].guid = e.guid => k <= e.n)

\* C26: get_values returns the entries of the queue in the order their guids were
\* inserted: read from the start it returns every entry still held, guid by guid in
\* insertion order, each with the bytes inserted under that guid (what is left of them
\* for an entry dequeue_bytes has cut); read from a stop index it returns a suffix of
\* that order.
C26_InsertionOrder ==
    (ret.op = "get_values" /\ ~ret.lock) =>
        \E order \in {LiveInserts} :
            /\ IsSuffix(ret.guids, [i \in 1..Len(order) |-> order[i].guid])
            /\ ret.stop = -1 => Len(ret.guids) = Len(order)
            /\ \A i \in DOMAIN ret.values :
                   \E e \in {order[Len(order) - Len(ret.guids) + i]} :
                       /\ IsSuffix(BytesDecode(ret.values[i]), e.value)
                       /\ (get_order_metadata(ret.values[i]) = 0)
                              => BytesDecode(ret.values[i]) = e.value

C26_Witness ==
    /\ ret.op = "get_values" /\ ~ret.lock /\ ret.stop = -1
    /\ Len(ret.guids) = 2
    /\ Len(enq) = 2 /\ enq[1].value # enq[2].value

\* C10: while the persist lock is set get_values returns nothing and dequeue_bytes
\* returns (empty, 0, Dummy), and neither they nor the lock change the queue; with the
\* lock cleared get_values returns the stored entries after the stop index and
\* dequeue_bytes takes from the head again.
C10_LockedState ==
    /\ (ret.op = "get_values" /\ ret.lock) => (ret.values = <<>> /\ ret.guids = <<>>)
    /\ (ret.op = "dequeue_bytes" /\ ret.lock) =>
           (ret.data = <<>> /\ ret.taken = 0 /\ ret.flag = DUMMY /\ ~ret.err)
    /\ (ret.op = "get_values" /\ ~ret.lock) =>
           /\ {ret.values[i] : i \in DOMAIN ret.values}
                  = {e.member : e \in {x \in store.queue : x.score > ret.stop}}
           /\ Len(ret.values) = Cardinality({x \in store.queue : x.score > ret.stop})

C10_LockedStep ==
    /\ (ret'.op \in {"lock", "unlock"}) => store' = store
    /\ (locked /\ ret'.op \in {"get_values", "dequeue_bytes"}) => store' = store
    /\ (~locked /\ ret'.op = "dequeue_bytes" /\ store.queue # {}) =>
           (ret'.taken > 0 /\ store' # store)

Payloads == {[tag |-> k, len |-> l] : k \in 1..MaxPayloads, l \in PayloadLens}

\* bincode::serialize(payload): every byte of the encoding tells the payload and its offset
Serialize(p) == [i \in 1..p.len |-> 10 * p.tag + i]

\* the peers a client talks to, and the alias it gives each
Peers == {"x"}
AliasOf == [x |-> "bob"]
Texts == {"a", "b"}
\* the session record process_prekey_bundle makes, and the one an overt exchange makes
BundleSession == 5
OvertSession == 1

\* the index bincode writes for each variant of DeniablePayload
VariantIndex == [SignalMessage |-> 200, Envelope |-> 201, KeyRequest |-> 202, KeyResponse |-> 203]
ServiceIdCode == [x |-> 1]

KeyRequest(service_id) == [variant |-> "KeyRequest", body |-> ServiceIdCode[service_id]]
KeyResponse(service_id) == [variant |-> "KeyResponse", body |-> ServiceIdCode[service_id]]
\* body 1: a ciphertext the deniable session decrypts; body 0: one it does not
DeniableEnvelope(body) == [variant |-> "Envelope", body |-> body]
SignalMessage(service_id, content) ==
    [variant |-> "SignalMessage", body |-> [destination_service_id |-> service_id,
                                            content |-> content]]

\* bincode::serialize of a DeniablePayload: the variant index, then the fields
SerializeVariant(p) == <<VariantIndex[p.variant], p.body>>

IncomingVariants == {KeyResponse(x) : x \in Peers} \cup {DeniableEnvelope(b) : b \in {0, 1}}

\* bincode::deserialize(bytes): the payload with this encoding, or an Err
Deserialize(bytes) ==
    IF \E p \in Payloads : Serialize(p) = bytes
    THEN [ok |-> TRUE, payload |-> CHOOSE p \in Payloads : Serialize(p) = bytes]
    ELSE IF \E p \in IncomingVariants : SerializeVariant(p) = bytes
    THEN [ok |-> TRUE, payload |-> CHOOSE p \in IncomingVariants : SerializeVariant(p) = bytes]
    ELSE [ok |-> FALSE]

Sevens(n) == [i \in 1..n |-> 7]

\* vec![0; n]
Zeros(n) == [i \in 1..n |-> 0]

DenimChunk(bytes, flags) == [chunk |-> bytes, flags |-> flags]

is_dummy(c) == c.flags = DUMMY

is_final(c) == c.flags = FINAL

\* the bytes of a list of chunks: flat_map(|c| c.chunk)
ChunkBytes(cs) == Flatten([i \in 1..Len(cs) |-> cs[i].chunk])

\* bincode::serialize(&Vec<DenimChunk>).len()
SerializedSize(cs) == EMPTY_VEC_SIZE + EMPTY_DENIMCHUNK_SIZE * Len(cs) + Len(ChunkBytes(cs))

\* (size * q).ceil() for q = num / den
CeilOfProduct(size, q) == (size * q[1] + q[2] - 1) \div q[2]

\* Ord of DenimChunk as reassembly uses it: rank 0 first, then -1, then -2
DenimChunkLess(a, b) == a.flags > b.flags

RECURSIVE SortInsert(_, _)
SortInsert(sorted, c) ==
    IF sorted = <<>> THEN <<c>>
    ELSE IF DenimChunkLess(c, Head(sorted)) THEN <<c>> \o sorted
    ELSE <<Head(sorted)>> \o SortInsert(Tail(sorted), c)

\* slice::sort, a stable sort
RECURSIVE SortChunks(_)
SortChunks(cs) ==
    IF cs = <<>> THEN <<>>
    ELSE SortInsert(SortChunks(SubSeq(cs, 1, Len(cs) - 1)), cs[Len(cs)])

(***************************************************************************)
(* The server's outbound path: PayloadCache::take_values over              *)
(* redis::dequeue_bytes, DenIMManager::dequeue_payload_data and            *)
(* DenIMManager::create_denim_message.                                     *)
(***************************************************************************)
get_free_space_in_bytes(q, regular_payload_size) == CeilOfProduct(regular_payload_size, q)

\* the while loop of take_values and its body, r being what the dequeue returned
RECURSIVE take_values_loop(_, _, _, _)
RECURSIVE take_values_step(_, _, _, _)
take_values_step(lock, take, result, r) ==
    IF r.err THEN [st |-> r.st, result |-> <<>>, err |-> TRUE]
    ELSE IF r.taken = 0 THEN [st |-> r.st, result |-> result, err |-> FALSE]
    ELSE take_values_loop(r.st, lock, take - r.taken, Append(result, <<r.data, r.flag>>))

take_values_loop(st, lock, take, result) ==
    IF take <= 0 THEN [st |-> st, result |-> result, err |-> FALSE]
    ELSE take_values_step(lock, take, result, dequeue_bytes(st, lock, take))

take_values_once(st, lock, data_size) ==
    IF data_size <= 0 THEN [st |-> st, result |-> <<>>, err |-> FALSE]
    ELSE LET r == dequeue_bytes(st, lock, data_size)
         IN  [st |-> r.st, err |-> r.err,
              result |-> IF r.taken = 0 THEN <<>> ELSE <<<<r.data, r.flag>>>>]

take_values(st, lock, data_size) == take_values_loop(st, lock, data_size, <<>>)

\* the for loop of dequeue_payload_data over what take_values returned
denim_chunks(taken) ==
    [st |-> taken.st, err |-> taken.err,
     chunks |-> [i \in 1..Len(taken.result) |->
                    DenimChunk(taken.result[i][1], taken.result[i][2])]]

dequeue_payload_data(st, lock, bytes_amount) == denim_chunks(take_values(st, lock, bytes_amount))

\* the DenimMessage create_denim_message builds around the dequeued chunks
denim_message(q, dequeued) ==
    [st |-> dequeued.st, err |-> dequeued.err,
     msg |-> [chunks |-> dequeued.chunks, q |-> q, ballast |-> <<>>]]

create_denim_message(st, lock, q, regular_payload_size) ==
    denim_message(q, dequeue_payload_data(st, lock,
                                          get_free_space_in_bytes(q, regular_payload_size)))

(***************************************************************************)
(* The client's outgoing payload queue (the DeniablePayload table) and     *)
(* Chunker::create_chunks.                                                 *)
(***************************************************************************)
\* SELECT id, content FROM DeniablePayload, first row
get_deniable_payload_last(rows) ==
    IF rows = <<>> THEN [ok |-> FALSE]
    ELSE [ok |-> TRUE, id |-> rows[Len(rows)].id, content |-> rows[Len(rows)].content]

get_deniable_payload(rows) ==
    IF rows = <<>> THEN [ok |-> FALSE]
    ELSE [ok |-> TRUE, id |-> rows[1].id, content |-> rows[1].content]

\* the rowid INSERT gives a new row: one more than the largest in the table
NextRowId(rows) ==
    IF rows = <<>> THEN 1
    ELSE 1 + (CHOOSE m \in {rows[i].id : i \in DOMAIN rows} :
                  \A i \in DOMAIN rows : rows[i].id <= m)

\* payload_id is <<>> for None and <<id>> for Some(id)
store_deniable_payload(rows, payload_id, payload) ==
    IF payload_id # <<>>
    THEN [i \in 1..Len(rows) |->
             IF rows[i].id = payload_id[1] THEN [rows[i] EXCEPT !.content = payload]
             ELSE rows[i]]
    ELSE Append(rows, [id |-> NextRowId(rows), content |-> payload])

remove_deniable_payload(rows, payload_id) ==
    SelectSeq(rows, LAMBDA r : r.id # payload_id)

\* DeniableStore::get_outgoing_message(..).unwrap_or_default()
get_outgoing_message(rows) ==
    LET r == get_deniable_payload(rows)
    IN  IF r.ok THEN <<r.id, r.content>> ELSE <<0, <<>>>>

\* a - b on usize: a panic with overflow checks, a wrap without them
USub(a, b, overflow_checks) ==
    IF a >= b THEN [panic |-> FALSE, value |-> a - b]
    ELSE IF overflow_checks THEN [panic |-> TRUE, value |-> 0]
    ELSE [panic |-> FALSE, value |-> a - b + USIZE_MOD]

ChunkerPanic(rows) == [rows |-> rows, chunks |-> <<>>, free_space |-> 0, panic |-> TRUE]

\* the while loop of create_chunks, and the end of its body: the push of the new chunk
\* and the free space that is left
RECURSIVE create_chunks_loop(_, _, _, _, _)
RECURSIVE create_chunks_push(_, _, _, _, _)
create_chunks_push(total_free_space, overflow_checks, rows, outgoing_chunks, new_chunk) ==
    LET chunks == Append(outgoing_chunks, new_chunk)
        left   == USub(total_free_space, SerializedSize(chunks), overflow_checks)
    IN  IF left.panic THEN ChunkerPanic(rows)
        ELSE create_chunks_loop(total_free_space, overflow_checks, rows, chunks, left.value)

create_chunks_loop(total_free_space, overflow_checks, rows, outgoing_chunks, free_space) ==
    IF free_space < EMPTY_DENIMCHUNK_SIZE
    THEN [rows |-> rows, chunks |-> outgoing_chunks, free_space |-> free_space,
          panic |-> FALSE]
    ELSE
    LET chunk_size == free_space - EMPTY_DENIMCHUNK_SIZE
        current    == get_outgoing_message(rows)
    IN  IF current[2] # <<>> /\ chunk_size # 0
        THEN IF Len(current[2]) <= chunk_size
             THEN create_chunks_push(total_free_space, overflow_checks,
                                     remove_deniable_payload(rows, current[1]),
                                     outgoing_chunks, DenimChunk(current[2], FINAL))
             ELSE create_chunks_push(total_free_space, overflow_checks,
                                     store_deniable_payload(rows, <<current[1]>>,
                                                            Drop(current[2], chunk_size)),
                                     outgoing_chunks,
                                     DenimChunk(Take(current[2], chunk_size), 0))
        ELSE IF chunk_size > ISIZE_MAX THEN ChunkerPanic(rows)
        ELSE create_chunks_push(total_free_space, overflow_checks, rows, outgoing_chunks,
                                DenimChunk(Zeros(chunk_size), DUMMY))

create_chunks(q, regular_payload_size, overflow_checks, rows) ==
    LET total_free_space == CeilOfProduct(regular_payload_size, q)
        first            == USub(total_free_space, EMPTY_VEC_SIZE, overflow_checks)
    IN  IF first.panic THEN ChunkerPanic(rows)
        ELSE create_chunks_loop(total_free_space, overflow_checks, rows, <<>>, first.value)

(***************************************************************************)
(* Reassembly: DenIMManager::create_deniable_payloads on the server and    *)
(* Client::handle_incoming_chunks on the client.                           *)
(***************************************************************************)
ReassemblyFailed(panic) == [payloads |-> <<>>, pending |-> <<>>, err |-> TRUE, panic |-> panic]

RECURSIVE create_deniable_payloads_unsorted_loop(_, _, _)
create_deniable_payloads_unsorted_loop(chunks, payloads, pending_chunks) ==
    IF chunks = <<>>
    THEN [payloads |-> payloads, pending |-> pending_chunks, err |-> FALSE, panic |-> FALSE]
    ELSE LET chunk == Head(chunks)
         IN  IF chunk.flags = DUMMY
             THEN create_deniable_payloads_unsorted_loop(Tail(chunks), payloads, pending_chunks)
             ELSE IF chunk.flags = FINAL
             THEN LET d == Deserialize(ChunkBytes(pending_chunks) \o chunk.chunk)
                  IN  IF ~d.ok THEN ReassemblyFailed(FALSE)
                      ELSE create_deniable_payloads_unsorted_loop(
                               Tail(chunks), Append(payloads, d.payload), <<>>)
             ELSE IF chunk.flags <= 0
             THEN create_deniable_payloads_unsorted_loop(Tail(chunks), payloads,
                                                         Append(pending_chunks, chunk))
             ELSE ReassemblyFailed(TRUE)

create_deniable_payloads_unsorted(chunks) ==
    create_deniable_payloads_unsorted_loop(chunks, <<>>, <<>>)

\* the while loop; ChunkType::from(flags) is unreachable!() for a flag above 2
RECURSIVE create_deniable_payloads_loop(_, _, _)
create_deniable_payloads_loop(chunks, payloads, pending_chunks) ==
    IF chunks = <<>>
    THEN [payloads |-> payloads, pending |-> pending_chunks, err |-> FALSE, panic |-> FALSE]
    ELSE LET chunk == Head(chunks)
         IN  IF chunk.flags = DUMMY
             THEN create_deniable_payloads_loop(Tail(chunks), payloads, pending_chunks)
             ELSE IF chunk.flags = FINAL
             THEN LET payload_data == ChunkBytes(SortChunks(pending_chunks)) \o chunk.chunk
                      d            == Deserialize(payload_data)
                  IN  IF ~d.ok THEN ReassemblyFailed(FALSE)
                      ELSE create_deniable_payloads_loop(
                               Tail(chunks), Append(payloads, d.payload), <<>>)
             ELSE IF chunk.flags <= 0
             THEN create_deniable_payloads_loop(Tail(chunks), payloads,
                                                Append(pending_chunks, chunk))
             ELSE ReassemblyFailed(TRUE)

create_deniable_payloads(chunks) == create_deniable_payloads_loop(chunks, <<>>, <<>>)

\* the for loop of handle_incoming_chunks; deserialize(..).expect(..) panics on an Err
RECURSIVE handle_incoming_chunks_loop(_, _, _)
handle_incoming_chunks_loop(new_chunks, chunks, deniable_payloads) ==
    IF new_chunks = <<>>
    THEN [payloads |-> deniable_payloads, pending |-> chunks, err |-> FALSE, panic |-> FALSE]
    ELSE LET chunk == Head(new_chunks)
         IN  IF is_final(chunk)
             THEN LET deniable_bytes == ChunkBytes(Append(SortChunks(chunks), chunk))
                      d              == Deserialize(deniable_bytes)
                  IN  IF ~d.ok THEN ReassemblyFailed(TRUE)
                      ELSE handle_incoming_chunks_loop(
                               Tail(new_chunks), <<>>, Append(deniable_payloads, d.payload))
             ELSE handle_incoming_chunks_loop(Tail(new_chunks), Append(chunks, chunk),
                                              deniable_payloads)

handle_incoming_chunks_forgetful(stored, new_chunks) ==
    LET r == handle_incoming_chunks_loop(new_chunks, stored, <<>>)
    IN  [stored |-> IF r.payloads = <<>> THEN new_chunks ELSE r.pending, payloads |-> r.payloads, panic |-> r.panic]

\* stored: the rows of IncomingDeniableChunk, read and deleted only when a Final has come
handle_incoming_chunks(stored, new_chunks) ==
    LET has_final == \E i \in DOMAIN new_chunks : is_final(new_chunks[i])
        chunks    == IF has_final THEN stored ELSE <<>>
        kept      == IF has_final THEN <<>> ELSE stored
        r         == handle_incoming_chunks_loop(new_chunks, chunks, <<>>)
    IN  [stored |-> kept \o r.pending, payloads |-> r.payloads, panic |-> r.panic]

\* the filter of handle_receiving_chunks and receive_message: Dummy chunks are dropped
WithoutDummies(chunks) == SelectSeq(chunks, LAMBDA c : ~is_dummy(c))

(***************************************************************************)
(* The emission specification: one endpoint, the server with its redis     *)
(* payload buffer or the client with its DeniablePayload table, takes      *)
(* deniable payloads into its outgoing buffer and emits DenIM envelopes.   *)
(***************************************************************************)
TagOf(bytes) == bytes[1] \div 10

\* the tags of the payloads that still have bytes in the outgoing buffer
QueuedTags ==
    {TagOf(BytesDecode(e.member)) : e \in store.queue}
        \cup {TagOf(table[i].content) : i \in DOMAIN table}

\* the number of payload bytes in the outgoing buffer
QueuedBytes ==
    LET entries == ZRangeAll(store.queue)
    IN  Len(Flatten([i \in 1..Len(entries) |-> BytesDecode(entries[i].member)]))
            + Len(Flatten([i \in 1..Len(table) |-> table[i].content]))

Uuid(n) == ToString(n)

Envelope(size, chunks, ballast) ==
    [size |-> size, chunks |-> chunks, ballast |-> ballast, lock |-> locked,
     queued |-> QueuedBytes]

DenimInit ==
    /\ store = EmptyStore
    /\ locked = FALSE
    /\ ret = NoRet
    /\ idLog = <<>>
    /\ firstVal = EmptyMap
    /\ endpoint \in {[role |-> "server", q |-> q, overflow_checks |-> TRUE] : q \in Qs}
                        \cup {[role |-> "client", q |-> q, overflow_checks |-> c] :
                                  q \in Qs, c \in BOOLEAN}
    /\ enq = <<>>
    /\ sent = <<>>
    /\ table = <<>>
    /\ wire = <<>>
    /\ incoming = <<>>
    /\ delivered = <<>>
    /\ AuxIdle

\* DenIMManager::set_deniable_payloads for one payload: insert under a fresh uuid
SetDeniablePayloads(len) ==
    /\ endpoint.role = "server"
    /\ Len(enq) < MaxPayloads
    /\ LET p == [tag |-> Len(enq) + 1, len |-> len]
           r == insert(store, Uuid(p.tag), Serialize(p))
       IN  /\ store' = r.st
           /\ enq' = Append(enq, [payload |-> p, behind |-> QueuedTags])
           /\ ret' = [op |-> "set_deniable_payloads", id |-> r.id]
    /\ UNCHANGED <<locked, idLog, firstVal, endpoint, sent, table, rxVars, auxVars>>

\* DenIMManager::create_denim_message for an overt envelope of the given encoded length
CreateDenimMessage(size) ==
    /\ endpoint.role = "server"
    /\ Len(sent) < MaxEnvelopes
    /\ \E r \in {create_denim_message(store, locked, endpoint.q, size)} :
           /\ store' = r.st
           /\ sent' = IF r.err THEN sent
                      ELSE Append(sent, Envelope(size, r.msg.chunks, r.msg.ballast))
           /\ ret' = [op |-> "create_denim_message", err |-> r.err]
    /\ UNCHANGED <<locked, idLog, firstVal, endpoint, enq, table, rxVars, auxVars>>

\* Client::send_deniable_message for one device: the serialized payload joins the table
SendDeniableMessage(len) ==
    /\ endpoint.role = "client"
    /\ Len(enq) < MaxPayloads
    /\ LET p == [tag |-> Len(enq) + 1, len |-> len]
       IN  /\ table' = store_deniable_payload(table, <<>>, Serialize(p))
           /\ enq' = Append(enq, [payload |-> p, behind |-> QueuedTags])
           /\ ret' = [op |-> "send_deniable_message", tag |-> p.tag]
    /\ UNCHANGED <<store, locked, idLog, firstVal, endpoint, sent, rxVars, auxVars>>

\* Client::send_message for one device: chunks from the Chunker, ballast of the free space
SendMessage(size) ==
    /\ endpoint.role = "client"
    /\ Len(sent) < MaxEnvelopes
    /\ \E r \in {create_chunks(endpoint.q, size, endpoint.overflow_checks, table)} :
           /\ table' = r.rows
           /\ sent' = IF r.panic THEN sent
                      ELSE Append(sent, Envelope(size, r.chunks, Zeros(r.free_space)))
           /\ ret' = [op |-> "send_message", size |-> size, panic |-> r.panic]
    /\ UNCHANGED <<store, locked, idLog, firstVal, endpoint, enq, rxVars, auxVars>>

DenimNext ==
    \/ \E len \in PayloadLens : SetDeniablePayloads(len)
    \/ \E size \in ServerSizes : CreateDenimMessage(size)
    \/ endpoint.role = "server" /\ LockQueue
    \/ endpoint.role = "server" /\ UnlockQueue
    \/ \E len \in PayloadLens : SendDeniableMessage(len)
    \/ \E size \in ClientSizes : SendMessage(size)

SpecDenim == DenimInit /\ [][DenimNext]_vars

(***************************************************************************)
(* The reassembly specification: the chunks of one payload, cut by the     *)
(* peer's buffer, arrive at a receiving endpoint in batches, the Data      *)
(* chunks in any order, a Dummy among them, the Final last.                *)
(***************************************************************************)
\* chunks per arriving envelope
BatchSizes == {1, 2, 6}

RECURSIVE DrainOrdered(_, _)
RECURSIVE DrainStep(_, _)
DrainStep(n, r) == <<DenimChunk(r.data, r.flag)>> \o DrainOrdered(r.st, n)

DrainOrdered(st, n) ==
    IF st.queue = {} THEN <<>> ELSE DrainStep(n, dequeue_bytes(st, FALSE, n))

\* the chunks the peer's buffer cuts payload p into when n bytes are asked each time
OrderedChunks(p, n) == DrainOrdered(insert(EmptyStore, Uuid(p.tag), Serialize(p)).st, n)

InsertAt(s, pos, x) == SubSeq(s, 1, pos - 1) \o <<x>> \o SubSeq(s, pos, Len(s))

RECURSIVE Batches(_, _)
Batches(s, b) == IF s = <<>> THEN <<>> ELSE <<Take(s, b)>> \o Batches(Drop(s, b), b)

ReassemblyInit ==
    /\ store = EmptyStore
    /\ locked = FALSE
    /\ ret = NoRet
    /\ idLog = <<>>
    /\ firstVal = EmptyMap
    /\ sent = <<>>
    /\ table = <<>>
    /\ incoming = <<>>
    /\ delivered = <<>>
    /\ AuxIdle
    /\ \E len \in PayloadLens, n \in CutSizes, b \in BatchSizes,
          role \in {"server", "client"} :
          LET p       == [tag |-> 1, len |-> len]
              ordered == OrderedChunks(p, n)
              k       == Len(ordered) - 1
          IN  \E perm \in Permutations(1..k), d \in 0..(k + 1) :
                  LET shuffled == [i \in 1..k |-> ordered[perm[i]]]
                      mixed    == IF d = 0 THEN shuffled
                                  ELSE InsertAt(shuffled, d, DenimChunk(Zeros(1), DUMMY))
                      arrival  == Append(mixed, ordered[k + 1])
                  IN  /\ enq = <<[payload |-> p, behind |-> {}]>>
                      /\ endpoint = [role |-> role, arrival |-> arrival]
                      /\ wire = Batches(arrival, b)

\* server::handle_receiving_chunks for the chunks of one request
HandleReceivingChunks ==
    /\ endpoint.role = "server"
    /\ wire # <<>>
    /\ wire' = Tail(wire)
    /\ LET chunks == WithoutDummies(Head(wire))
           buffer == incoming \o chunks
           r      == create_deniable_payloads(buffer)
       IN  IF chunks = <<>>
           THEN /\ ret' = [op |-> "handle_receiving_chunks", failed |-> FALSE,
                            panic |-> FALSE]
                /\ UNCHANGED <<incoming, delivered>>
           ELSE IF ~\E i \in DOMAIN chunks : is_final(chunks[i])
           THEN /\ incoming' = buffer
                /\ ret' = [op |-> "handle_receiving_chunks", failed |-> FALSE,
                            panic |-> FALSE]
                /\ UNCHANGED delivered
           ELSE /\ incoming' = r.pending
                /\ delivered' = delivered \o r.payloads
                /\ ret' = [op |-> "handle_receiving_chunks", failed |-> r.err,
                            panic |-> r.panic]
    /\ UNCHANGED <<store, locked, idLog, firstVal, denimVars, auxVars>>

\* Client::receive_message for the chunks of one DenIM envelope
ReceiveMessage ==
    /\ endpoint.role = "client"
    /\ wire # <<>>
    /\ wire' = Tail(wire)
    /\ LET chunks == WithoutDummies(Head(wire))
           r      == handle_incoming_chunks(incoming, chunks)
       IN  IF chunks = <<>>
           THEN /\ ret' = [op |-> "receive_message", failed |-> FALSE, panic |-> FALSE]
                /\ UNCHANGED <<incoming, delivered>>
           ELSE /\ incoming' = r.stored
                /\ delivered' = delivered \o r.payloads
                /\ ret' = [op |-> "receive_message", failed |-> r.panic,
                            panic |-> r.panic]
    /\ UNCHANGED <<store, locked, idLog, firstVal, denimVars, auxVars>>

ReassemblyNext == HandleReceivingChunks \/ ReceiveMessage

SpecReassembly == ReassemblyInit /\ [][ReassemblyNext]_vars

(***************************************************************************)
(* Properties of the emitted envelopes.                                    *)
(***************************************************************************)
IsPrefix(s, t) == Len(s) <= Len(t) /\ s = SubSeq(t, 1, Len(s))

Min(a, b) == IF a < b THEN a ELSE b

\* the chunks of all envelopes, in emission order
EmittedChunks == Flatten([i \in 1..Len(sent) |-> sent[i].chunks])

\* the emitted chunks that carry bytes of the payload with tag k
ChunksOf(k) == SelectSeq(EmittedChunks, LAMBDA c : ~is_dummy(c) /\ TagOf(c.chunk) = k)

EnqueuedPayloads == [i \in 1..Len(enq) |-> enq[i].payload]

\* C1 (as claimed): for every envelope emitted, by the client or by the server, the
\* serialized size of its chunks plus the length of its ballast is ceil(|overt| * q).
C1_QBudgetExact ==
    \A i \in DOMAIN sent :
        SerializedSize(sent[i].chunks) + Len(sent[i].ballast)
            = CeilOfProduct(sent[i].size, endpoint.q)

\* C2: on the server's outgoing buffer every envelope built with the lock clear takes
\* as many payload bytes as its slack and the buffer allow, and the chunks of all
\* envelopes in emission order reassemble without error to the enqueued payloads in
\* enqueue order: to a prefix of them while bytes are still queued, with the pending
\* chunks a prefix of the next payload, and to all of them once the buffer is drained.
C2_RoundTrip ==
    endpoint.role = "server" =>
        /\ \A i \in DOMAIN sent :
               ~sent[i].lock =>
                   Len(ChunkBytes(sent[i].chunks))
                       = Min(get_free_space_in_bytes(endpoint.q, sent[i].size), sent[i].queued)
        /\ \A r \in {create_deniable_payloads(EmittedChunks)} :
               /\ ~r.err
               /\ IsPrefix(r.payloads, EnqueuedPayloads)
               /\ (store.queue = {}) => (r.payloads = EnqueuedPayloads /\ r.pending = <<>>)
               /\ (r.pending # <<>>) =>
                      /\ Len(r.payloads) < Len(enq)
                      /\ IsPrefix(ChunkBytes(r.pending),
                                  Serialize(enq[Len(r.payloads) + 1].payload))

\* two payloads, the first cut into a Data and a Final chunk over two envelopes, have
\* left the server's buffer
C2_Witness ==
    /\ endpoint.role = "server"
    /\ Len(enq) = 2 /\ store.queue = {}
    /\ Len(sent) = 2 /\ sent[1].chunks # <<>>
    /\ \E i \in DOMAIN EmittedChunks : EmittedChunks[i].flags = 0
    /\ Len(ChunksOf(2)) >= 1

\* C3 (as claimed): every payload that has left the outgoing queue has exactly one
\* Final chunk emitted for it, as its last chunk, and its chunks concatenate in
\* emission order to exactly its serialized bytes.
C3_FinalForConsumed ==
    \A k \in 1..Len(enq) :
        (k \notin QueuedTags) =>
            \A cs \in {ChunksOf(k)} :
                /\ cs # <<>>
                /\ \A i \in DOMAIN cs : is_final(cs[i]) <=> (i = Len(cs))
                /\ ChunkBytes(cs) = Serialize(enq[k].payload)

\* C4 (as claimed): the Data chunks emitted for one payload carry the ranks
\* 0, -1, -2, ... in emission order, and nothing follows the payload's Final.
C4_RankDeterminism ==
    \A k \in 1..Len(enq) :
        \A cs \in {ChunksOf(k)} :
            \A i \in DOMAIN cs :
                IF is_final(cs[i]) THEN i = Len(cs) ELSE cs[i].flags = -(i - 1)

\* C5: a chunk of a payload is emitted only after the Final of every payload that was
\* still queued when it was enqueued, on the server buffer and on the client queue.
C5_EnqueueOrder ==
    \A cs \in {WithoutDummies(EmittedChunks)} :
        \A i \in DOMAIN cs :
            \A a \in enq[TagOf(cs[i].chunk)].behind :
                \E j \in 1..(i - 1) : is_final(cs[j]) /\ TagOf(cs[j].chunk) = a

\* a chunk of the second payload is out, and the first payload, queued ahead of it,
\* went out as a Data chunk and a Final
C5_Witness ==
    /\ Len(enq) >= 2 /\ 1 \in enq[2].behind
    /\ Len(ChunksOf(1)) >= 2
    /\ Len(ChunksOf(2)) >= 1

(***************************************************************************)
(* Properties of reassembly.                                               *)
(***************************************************************************)
\* C6: whatever the order the Data chunks arrive in and wherever a Dummy stands among
\* them, no batch fails, nothing is delivered before the Final has come, and once it
\* has come exactly the original payload is delivered and no chunk is held back; on
\* the server (create_deniable_payloads) and on the client (handle_incoming_chunks).
C6_OutOfOrderReassembly ==
    /\ ret # NoRet => ~ret.failed
    /\ (wire # <<>>) => delivered = <<>>
    /\ (wire = <<>>) => (delivered = <<enq[1].payload>> /\ incoming = <<>>)

\* the client has delivered a payload whose Data chunks came last rank first with a
\* Dummy among them
C6_Witness ==
    /\ endpoint.role = "client"
    /\ wire = <<>> /\ delivered # <<>>
    /\ Len(endpoint.arrival) >= 5
    /\ endpoint.arrival[1].flags < endpoint.arrival[2].flags
    /\ \E i \in DOMAIN endpoint.arrival : is_dummy(endpoint.arrival[i])

(***************************************************************************)
(* The concurrency specification: producers call redis::insert and one     *)
(* consumer calls redis::dequeue_bytes on the same queue, each call one    *)
(* redis command at a time, as the awaits of the code let them interleave. *)
(***************************************************************************)
\* dequeue_bytes calls the consumer makes in one run
MaxDequeues == 2

Producers == {"p1", "p2"}
Consumer == "c"
\* the value each producer inserts
ProducerValue == [p1 |-> <<11, 12>>, p2 |-> <<21, 22, 23>>]

\* the locals of a caller between two commands; pc = "idle" between two calls
IdleCall == [pc |-> "idle", guid |-> "", value |-> <<>>, n |-> 0, id |-> 0,
             old |-> <<>>, removed |-> <<>>, done |-> <<>>]

Returned(l, record) == [IdleCall EXCEPT !.done = Append(l.done, record)]

InsertReturned(l, err, id) ==
    Returned(l, [op |-> "insert", guid |-> l.guid, value |-> l.value, err |-> err, id |-> id])

DequeueReturned(l, err, data, flag) ==
    Returned(l, [op |-> "dequeue_bytes", n |-> l.n, err |-> err, data |-> data,
                 taken |-> Len(data), flag |-> flag])

\* the next redis command of an insert call with locals l
insert_command(st, l) ==
    CASE l.pc = "hexists" ->
             [st |-> st,
              l |-> [l EXCEPT !.pc = IF l.guid \in DOMAIN st.meta THEN "hget" ELSE "hincrby"]]
      [] l.pc = "hget" ->
             [st |-> st,
              l |-> IF l.guid \in DOMAIN st.meta THEN InsertReturned(l, FALSE, st.meta[l.guid])
                    ELSE InsertReturned(l, TRUE, 0)]
      [] l.pc = "hincrby" ->
             [st |-> [st EXCEPT !.counter = st.counter + 1],
              l |-> [l EXCEPT !.pc = "zadd", !.id = st.counter + 1]]
      [] l.pc = "zadd" ->
             [st |-> [st EXCEPT !.queue =
                         ZAddNX(st.queue, l.id, create_payload_entry(l.id, l.value, 0))],
              l |-> [l EXCEPT !.pc = "hset"]]
      [] l.pc = "hset" ->
             [st |-> [st EXCEPT !.meta = MapPut(st.meta, l.guid, l.id)],
              l |-> [l EXCEPT !.pc = "hset_rev"]]
      [] l.pc = "hset_rev" ->
             [st |-> [st EXCEPT !.rev = MapPut(st.rev, l.id, l.guid)],
              l |-> [l EXCEPT !.pc = "index"]]
      [] l.pc = "index" ->
             [st |-> [st EXCEPT !.indexed = TRUE], l |-> InsertReturned(l, FALSE, l.id)]

\* the next redis command of a dequeue_bytes call with locals l: get_first, then
\* update_value (l.n < l.value.len()) or the HGET of the guid and remove
dequeue_command(st, lock, l) ==
    CASE l.pc = "get_lock" ->
             [st |-> st,
              l |-> IF lock THEN DequeueReturned(l, FALSE, <<>>, DUMMY)
                    ELSE [l EXCEPT !.pc = "zrange"]]
      [] l.pc = "zrange" ->
             [st |-> st,
              l |-> IF st.queue = {} THEN DequeueReturned(l, FALSE, <<>>, DUMMY)
                    ELSE [l EXCEPT !.id = get_field_metadata(ZRangeAll(st.queue)[1].member),
                                   !.value = BytesDecode(ZRangeAll(st.queue)[1].member),
                                   !.pc = IF l.n < Len(BytesDecode(ZRangeAll(st.queue)[1].member))
                                          THEN "uv_find" ELSE "hget_rev"]]
      [] l.pc = "uv_find" ->
             [st |-> st,
              l |-> IF ZRangeByScore(st.queue, l.id, l.id) = <<>>
                    THEN DequeueReturned(l, TRUE, <<>>, DUMMY)
                    ELSE [l EXCEPT !.old = <<ZRangeByScore(st.queue, l.id, l.id)[1].member>>,
                                   !.pc = "uv_zrem"]]
      [] l.pc = "uv_zrem" ->
             [st |-> [st EXCEPT !.queue = {e \in st.queue : e.member # l.old[1]}],
              l |-> IF \E e \in st.queue : e.member = l.old[1]
                    THEN [l EXCEPT !.pc = "uv_zadd"]
                    ELSE DequeueReturned(l, TRUE, <<>>, DUMMY)]
      [] l.pc = "uv_zadd" ->
             [st |-> [st EXCEPT !.queue =
                         ZAdd(st.queue, l.id,
                              create_payload_entry(l.id, Drop(l.value, l.n),
                                                   get_order_metadata(l.old[1]) - 1))],
              l |-> IF \E e \in st.queue :
                           e.member = create_payload_entry(l.id, Drop(l.value, l.n),
                                                           get_order_metadata(l.old[1]) - 1)
                    THEN DequeueReturned(l, TRUE, <<>>, DUMMY)
                    ELSE DequeueReturned(l, FALSE, Take(l.value, l.n),
                                         get_order_metadata(l.old[1]))]
      [] l.pc = "hget_rev" ->
             [st |-> st,
              l |-> IF l.id \in DOMAIN st.rev
                    THEN [l EXCEPT !.guid = st.rev[l.id], !.pc = "rm_hget"]
                    ELSE DequeueReturned(l, TRUE, <<>>, DUMMY)]
      [] l.pc = "rm_hget" ->
             [st |-> st,
              l |-> IF l.guid \in DOMAIN st.meta
                    THEN [l EXCEPT !.id = st.meta[l.guid], !.pc = "rm_zrange"]
                    ELSE [l EXCEPT !.pc = "rm_zcard"]]
      [] l.pc = "rm_zrange" ->
             [st |-> st,
              l |-> [l EXCEPT !.old = Take(ZRangeByScore(st.queue, l.id, l.id), 1),
                              !.pc = "rm_zrem"]]
      [] l.pc = "rm_zrem" ->
             [st |-> [st EXCEPT !.queue = {e \in st.queue : e.score # l.id}],
              l |-> [l EXCEPT !.pc = "rm_hdel"]]
      [] l.pc = "rm_hdel" ->
             [st |-> [st EXCEPT !.meta = MapDel(st.meta, l.guid)],
              l |-> [l EXCEPT !.pc = "rm_hdel_rev"]]
      [] l.pc = "rm_hdel_rev" ->
             [st |-> [st EXCEPT !.rev = MapDel(st.rev, l.id)],
              l |-> [l EXCEPT !.removed = [i \in 1..Len(l.old) |-> BytesDecode(l.old[i].member)],
                              !.pc = "rm_zcard"]]
      [] l.pc = "rm_zcard" ->
             [st |-> st,
              l |-> IF st.queue = {} THEN [l EXCEPT !.pc = "rm_del_queue"]
                    ELSE DequeueReturned(l, FALSE, Flatten(l.removed), FINAL)]
      [] l.pc = "rm_del_queue" ->
             [st |-> [st EXCEPT !.queue = {}], l |-> [l EXCEPT !.pc = "rm_del_meta"]]
      [] l.pc = "rm_del_meta" ->
             [st |-> [st EXCEPT !.meta = EmptyMap, !.counter = 0],
              l |-> [l EXCEPT !.pc = "rm_zrem_index"]]
      [] l.pc = "rm_zrem_index" ->
             [st |-> [st EXCEPT !.indexed = FALSE],
              l |-> DequeueReturned(l, FALSE, Flatten(l.removed), FINAL)]

InsertPcs == {"hexists", "hget", "hincrby", "zadd", "hset", "hset_rev", "index"}

ConcurrentGuids == {"g1", "g2"}

ConcurrentInit ==
    /\ store = EmptyStore
    /\ locked = FALSE
    /\ ret = NoRet
    /\ idLog = <<>>
    /\ firstVal = EmptyMap
    /\ endpoint = [role |-> "concurrent"]
    /\ enq = <<>>
    /\ sent = <<>>
    /\ table = <<>>
    /\ wire = <<>>
    /\ incoming = <<>>
    /\ delivered = <<>>
    /\ calls = [p \in Producers \cup {Consumer} |-> IdleCall]
    /\ lockKey = <<>>
    /\ client = <<>>
    /\ conn = <<>>

\* a producer calls insert(guid, value)
InsertCall(p, guid) ==
    /\ calls[p].pc = "idle"
    /\ calls[p].done = <<>>
    /\ calls' = [calls EXCEPT ![p] = [IdleCall EXCEPT !.pc = "hexists", !.guid = guid,
                                                      !.value = ProducerValue[p]]]
    /\ UNCHANGED <<storeVars, denimVars, rxVars, lockKey, client, conn>>

\* the insert call of producer p sends its next command
InsertStep(p) ==
    /\ calls[p].pc \in InsertPcs
    /\ \E r \in {insert_command(store, calls[p])} :
          /\ store' = r.st
          /\ calls' = [calls EXCEPT ![p] = r.l]
    /\ UNCHANGED <<locked, ret, idLog, firstVal, denimVars, rxVars, lockKey, client, conn>>

\* the consumer calls dequeue_bytes(n)
DequeueCall(n) ==
    /\ calls[Consumer].pc = "idle"
    /\ Len(calls[Consumer].done) < MaxDequeues
    /\ calls' = [calls EXCEPT ![Consumer] =
                    [IdleCall EXCEPT !.pc = "get_lock", !.n = n, !.done = calls[Consumer].done]]
    /\ UNCHANGED <<storeVars, denimVars, rxVars, lockKey, client, conn>>

\* the dequeue_bytes call of the consumer sends its next command
DequeueStep ==
    /\ calls[Consumer].pc \notin InsertPcs \cup {"idle"}
    /\ \E r \in {dequeue_command(store, locked, calls[Consumer])} :
          /\ store' = r.st
          /\ calls' = [calls EXCEPT ![Consumer] = r.l]
    /\ UNCHANGED <<locked, ret, idLog, firstVal, denimVars, rxVars, lockKey, client, conn>>

ConcurrentNext ==
    \/ \E p \in Producers, guid \in ConcurrentGuids : InsertCall(p, guid)
    \/ \E p \in Producers : InsertStep(p)
    \/ \E n \in 1..MaxTake : DequeueCall(n)
    \/ DequeueStep

SpecConcurrent == ConcurrentInit /\ [][ConcurrentNext]_vars

\* every caller is between two calls
Quiescent == \A p \in DOMAIN calls : calls[p].pc = "idle"

\* the orders in which the completed calls can be put one after the other, each
\* caller's own calls in the order it made them
SequentialOrders ==
    LET total == Len(calls["p1"].done) + Len(calls["p2"].done) + Len(calls[Consumer].done)
    IN  {o \in [1..total -> DOMAIN calls] :
            \A p \in DOMAIN calls : Cardinality({i \in 1..total : o[i] = p}) = Len(calls[p].done)}

\* the completed calls, run one after the other in this order with the atomic
\* insert and dequeue_bytes from the store st, return what they returned and
\* leave the queue as it is
RECURSIVE ReplayMatches(_, _, _)
ReplayMatches(order, st, pos) ==
    IF order = <<>> THEN st.queue = store.queue
    ELSE \E p \in {Head(order)} : \E rec \in {calls[p].done[pos[p]]} :
            IF rec.op = "insert"
            THEN \E r \in {insert(st, rec.guid, rec.value)} :
                    /\ ~rec.err
                    /\ r.id = rec.id
                    /\ ReplayMatches(Tail(order), r.st, [pos EXCEPT ![p] = @ + 1])
            ELSE \E r \in {dequeue_bytes(st, FALSE, rec.n)} :
                    /\ r.err = rec.err
                    /\ r.data = rec.data
                    /\ r.flag = rec.flag
                    /\ ReplayMatches(Tail(order), r.st, [pos EXCEPT ![p] = @ + 1])

\* C11 (as claimed): with producers calling insert and one consumer calling
\* dequeue_bytes concurrently on one queue, whenever all calls have returned,
\* their results and the queue are those of some sequential order of the calls.
C11_Serializable ==
    Quiescent =>
        \E o \in SequentialOrders : ReplayMatches(o, EmptyStore, [p \in DOMAIN calls |-> 1])

\* C32 (as claimed): when two insert calls with the same guid have run concurrently on
\* one queue and both have returned, the queue holds exactly one entry for that guid
\* and both calls returned its entry id.
C32_ConcurrentSameGuid ==
    (/\ Quiescent
     /\ calls[Consumer].done = <<>>
     /\ \A p \in Producers : calls[p].done # <<>>
     /\ calls["p1"].done[1].guid = calls["p2"].done[1].guid)
        => /\ Cardinality(store.queue) = 1
           /\ \A p \in Producers : ~calls[p].done[1].err
           /\ calls["p1"].done[1].id = calls["p2"].done[1].id

\* C33 (as claimed): when an insert has run concurrently with the dequeue_bytes that
\* took the whole of the only other entry, and both have returned, the inserted entry
\* is in the queue with its forward and reverse metadata and the queue is in the
\* index.
C33_InsertSurvivesCleanup ==
    (/\ Quiescent
     /\ \A p \in Producers : calls[p].done # <<>> /\ ~calls[p].done[1].err
     /\ calls["p1"].done[1].guid # calls["p2"].done[1].guid
     /\ Len(calls[Consumer].done) = 1
     /\ ~calls[Consumer].done[1].err
     /\ calls[Consumer].done[1].data = ProducerValue["p1"])
        => \E e \in store.queue :
               /\ BytesDecode(e.member) = ProducerValue["p2"]
               /\ e.score = calls["p2"].done[1].id
               /\ calls["p2"].done[1].guid \in DOMAIN store.meta
               /\ store.meta[calls["p2"].done[1].guid] = e.score
               /\ e.score \in DOMAIN store.rev
               /\ store.rev[e.score] = calls["p2"].done[1].guid
               /\ store.indexed

(***************************************************************************)
(* The same callers with a store connection that can fail: the command a   *)
(* dequeue_bytes call is about to send returns an error instead, and the   *)
(* call returns it with ?.                                                 *)
(***************************************************************************)
DequeueFailed(l) ==
    Returned(l, [op |-> "dequeue_bytes", n |-> l.n, err |-> TRUE, data |-> <<>>,
                 taken |-> 0, flag |-> DUMMY, at |-> l.pc, id |-> l.id, value |-> l.value])

\* query_async(..).await? returning Err in dequeue_bytes, update_value or remove
DequeueInterrupt ==
    /\ calls[Consumer].pc \notin InsertPcs \cup {"idle"}
    /\ calls' = [calls EXCEPT ![Consumer] = DequeueFailed(calls[Consumer])]
    /\ UNCHANGED <<storeVars, denimVars, rxVars, lockKey, client, conn>>

InterruptNext ==
    \/ ConcurrentNext
    \/ DequeueInterrupt

SpecInterrupt == ConcurrentInit /\ [][InterruptNext]_vars

\* C34 (as claimed): when a dequeue_bytes of fewer bytes than the head entry holds has
\* failed at a command of update_value, the queue still holds an entry with the head's
\* entry id whose bytes end with the bytes that were not returned.
C34_PartialConsumeKeepsTail ==
    (calls[Consumer].pc = "idle" /\ calls[Consumer].done # <<>>) =>
        \E rec \in {calls[Consumer].done[Len(calls[Consumer].done)]} :
            (rec.err /\ "at" \in DOMAIN rec /\ rec.at \in {"uv_find", "uv_zrem", "uv_zadd"})
                => \E e \in store.queue :
                       /\ get_field_metadata(e.member) = rec.id
                       /\ IsSuffix(Drop(rec.value, rec.n), BytesDecode(e.member))

(***************************************************************************)
(* The persist lock with its time to live: a persister locks the queue,    *)
(* persists and unlocks, or crashes while it holds the lock.               *)
(***************************************************************************)
\* seconds of the SETEX in lock_queue_for_persistence
LOCK_TTL == 30

\* SET key "1" without expiry: redis reports its TTL as -1
set_no_expiry(seconds) == <<[value |-> "1", ttl |-> -1]>>

\* SETEX key seconds "1"
setex(seconds) == <<[value |-> "1", ttl |-> seconds]>>

\* the key a second later: redis deletes a key whose time to live has run out
expire(key) ==
    IF key = <<>> \/ key[1].ttl < 0 THEN key
    ELSE IF key[1].ttl <= 1 THEN <<>>
    ELSE <<[key[1] EXCEPT !.ttl = @ - 1]>>

LockTtlInit ==
    /\ store = EmptyStore
    /\ locked = FALSE
    /\ ret = NoRet
    /\ idLog = <<>>
    /\ firstVal = EmptyMap
    /\ endpoint = [role |-> "persister", state |-> "idle"]
    /\ enq = <<>>
    /\ sent = <<>>
    /\ table = <<>>
    /\ wire = <<>>
    /\ incoming = <<>>
    /\ delivered = <<>>
    /\ calls = <<>>
    /\ lockKey = <<>>
    /\ client = <<>>
    /\ conn = <<>>

\* MessageCache::lock_queue_for_persistence
LockQueueForPersistence ==
    /\ endpoint.state = "idle"
    /\ lockKey' = setex(LOCK_TTL)
    /\ locked' = TRUE
    /\ endpoint' = [endpoint EXCEPT !.state = "persisting"]
    /\ ret' = [op |-> "lock"]
    /\ UNCHANGED <<store, idLog, firstVal, enq, sent, table, rxVars, calls, client, conn>>

\* MessageCache::unlock_queue_for_persistence
UnlockQueueForPersistence ==
    /\ endpoint.state = "persisting"
    /\ lockKey' = <<>>
    /\ locked' = FALSE
    /\ endpoint' = [endpoint EXCEPT !.state = "idle"]
    /\ ret' = [op |-> "unlock"]
    /\ UNCHANGED <<store, idLog, firstVal, enq, sent, table, rxVars, calls, client, conn>>

\* the persister dies between its lock and its unlock
PersisterCrash ==
    /\ endpoint.state = "persisting"
    /\ endpoint' = [endpoint EXCEPT !.state = "crashed"]
    /\ UNCHANGED <<storeVars, enq, sent, table, rxVars, auxVars>>

\* a second passes on the redis server
Tick ==
    /\ lockKey # <<>>
    /\ lockKey' = expire(lockKey)
    /\ locked' = (expire(lockKey) # <<>>)
    /\ UNCHANGED <<store, ret, idLog, firstVal, denimVars, rxVars, calls, client, conn>>

\* the inserts the producers of this queue make while the persister runs
LockTtlInserts == {<<"g1", <<11, 12>>>>, <<"g2", <<21, 22, 23>>>>}

LockTtlNext ==
    \/ \E i \in LockTtlInserts : Insert(i[1], i[2])
    \/ GetValues(-1)
    \/ \E n \in 1..MaxTake : DequeueBytes(n)
    \/ LockQueueForPersistence
    \/ UnlockQueueForPersistence
    \/ PersisterCrash
    \/ Tick

SpecLockTtl == LockTtlInit /\ [][LockTtlNext]_vars

\* redis runs its clock whatever the clients do
SpecLockTtlFair == LockTtlInit /\ [][LockTtlNext]_vars /\ WF_vars(Tick)

PersisterCrashed == endpoint.role = "persister" /\ endpoint.state = "crashed"

\* C12: a persister that set the persist lock and crashed without unlocking does
\* not block the queue for ever: the lock key runs out, and from then on get_values
\* and dequeue_bytes return the entries of the queue again.
C12_CrashedLockExpires ==
    /\ (PersisterCrashed /\ locked) ~> (PersisterCrashed /\ ~locked)
    /\ [][(PersisterCrashed /\ ~locked /\ store.queue # {}) =>
             /\ ret'.op = "dequeue_bytes" => (~ret'.err /\ ret'.taken > 0 /\ ret'.flag # DUMMY)
             /\ (ret'.op = "get_values" /\ ret'.stop = -1) =>
                    Len(ret'.values) = Cardinality(store.queue)]_vars

\* the persister crashed with the lock set, the lock ran out, and a dequeue_bytes
\* after that took bytes of the queue
C12_Witness ==
    /\ PersisterCrashed
    /\ lockKey = <<>> /\ ~locked
    /\ ret.op = "dequeue_bytes" /\ ~ret.lock /\ ret.taken > 0

(***************************************************************************)
(* Properties of the server's envelope builder under the persist lock.     *)
(***************************************************************************)
\* C13 (as claimed): an envelope the server builds while the receiver's payload queue
\* is locked takes no byte of the queue and carries a Dummy chunk in the slot, which
\* gives it the size of an envelope built for a user with nothing queued.
C13_LockedEnvelopeCarriesDummy ==
    endpoint.role = "server" =>
        \A i \in DOMAIN sent :
            sent[i].lock =>
                /\ WithoutDummies(sent[i].chunks) = <<>>
                /\ \E j \in DOMAIN sent[i].chunks : is_dummy(sent[i].chunks[j])
                /\ \A k \in DOMAIN sent :
                       (sent[k].size = sent[i].size /\ sent[k].queued = 0) =>
                           SerializedSize(sent[k].chunks) + Len(sent[k].ballast)
                               = SerializedSize(sent[i].chunks) + Len(sent[i].ballast)

(***************************************************************************)
(* The client's storage behind ClientDB: the SQLite Device and InMemory.   *)
(* A loaded session is <<>> for None and <<record>> for Some(record).      *)
(***************************************************************************)
Backends == {"Device", "InMemory"}

EmptyDb(backend) ==
    [backend |-> backend, DeviceSessionStore |-> EmptyMap,
     DeniableDeviceSessionStore |-> EmptyMap, session_store |-> EmptyMap]

load_session(db, address) ==
    IF db.backend = "Device"
    THEN IF address \in DOMAIN db.DeviceSessionStore
         THEN <<B64Decode(db.DeviceSessionStore[address])>> ELSE <<>>
    ELSE IF address \in DOMAIN db.session_store THEN <<db.session_store[address]>> ELSE <<>>

load_deniable_session(db, address) ==
    IF db.backend = "Device"
    THEN IF address \in DOMAIN db.DeniableDeviceSessionStore
         THEN <<B64Decode(db.DeniableDeviceSessionStore[address])>> ELSE <<>>
    ELSE IF address \in DOMAIN db.session_store THEN <<db.session_store[address]>> ELSE <<>>

store_session(db, address, record) ==
    IF db.backend = "Device"
    THEN [db EXCEPT !.DeviceSessionStore = MapPut(@, address, B64Encode(record))]
    ELSE [db EXCEPT !.session_store = MapPut(@, address, record)]

store_deniable_session(db, address, record) ==
    IF db.backend = "Device"
    THEN [db EXCEPT !.DeniableDeviceSessionStore = MapPut(@, address, B64Encode(record))]
    ELSE [db EXCEPT !.session_store = MapPut(@, address, record)]

(***************************************************************************)
(* The client's deniable channel: key request, stash, key response.        *)
(* w is the client's state: storage, DeniablePayload rows, incoming chunks. *)
(***************************************************************************)
\* libsignal's encryption under a session record, and the record after it
encrypt(record, plaintext) == [session |-> record, plaintext |-> plaintext]

ClientFailed(w, panic) == [w |-> w, processed |-> <<>>, err |-> TRUE, panic |-> panic]

ClientOk(w, processed) == [w |-> w, processed |-> processed, err |-> FALSE, panic |-> FALSE]

\* Client::send_deniable_message: encrypt under the deniable session, enqueue the payload
send_deniable_message(w, message, alias) ==
    IF w.client.db.backend = "InMemory" THEN ClientFailed(w, TRUE)
    ELSE IF alias \notin DOMAIN w.client.nicknames THEN ClientFailed(w, FALSE)
    ELSE IF w.client.nicknames[alias] \notin w.client.contacts THEN ClientFailed(w, FALSE)
    ELSE IF load_deniable_session(w.client.db, w.client.nicknames[alias]) = <<>>
    THEN ClientFailed(w, FALSE)
    ELSE \* the session exists
         ClientOk(
             [w EXCEPT
                 !.client.db = store_deniable_session(
                     @, w.client.nicknames[alias],
                     load_deniable_session(w.client.db, w.client.nicknames[alias])[1] + 1),
                 !.table = store_deniable_payload(
                     @, <<>>,
                     SerializeVariant(SignalMessage(
                         w.client.nicknames[alias],
                         B64Encode(encrypt(
                             load_deniable_session(w.client.db, w.client.nicknames[alias])[1],
                             message)))))],
             <<>>)

add_deniable_contact_always_request(w, service_id, text, alias) ==
    IF w.client.db.backend = "InMemory" THEN ClientFailed(w, TRUE)
    ELSE ClientOk(
             [w EXCEPT
                 !.table = store_deniable_payload(@, <<>>,
                                                  SerializeVariant(KeyRequest(service_id))),
                 !.client.DeniableKeyRequestsSent = MapPut(@, service_id, alias),
                 !.client.DeniableMessageAwaitingEncryption =
                     Append(@, [id |-> NextRowId(@), message |-> text, alias |-> alias])],
             <<>>)

\* Client::add_deniable_contact_and_queue_message
add_deniable_contact_and_queue_message(w, service_id, text, alias) ==
    IF w.client.db.backend = "InMemory" THEN ClientFailed(w, TRUE)
    ELSE ClientOk(
             [w EXCEPT
                 !.table = IF service_id \in DOMAIN w.client.DeniableKeyRequestsSent THEN @
                           ELSE store_deniable_payload(@, <<>>,
                                                       SerializeVariant(KeyRequest(service_id))),
                 !.client.DeniableKeyRequestsSent =
                     IF service_id \in DOMAIN @ THEN @ ELSE MapPut(@, service_id, alias),
                 !.client.DeniableMessageAwaitingEncryption =
                     Append(@, [id |-> NextRowId(@), message |-> text, alias |-> alias])],
             <<>>)

\* the for loop of the KeyResponse arm: send_deniable_message(..)? for every message
RECURSIVE send_awaiting(_, _, _)
send_awaiting(w, messages, alias) ==
    IF messages = <<>> THEN ClientOk(w, <<>>)
    ELSE LET r == send_deniable_message(w, Head(messages), alias)
         IN  IF r.err THEN r ELSE send_awaiting(r.w, Tail(messages), alias)

\* get_messages_awaiting_encryption: SELECT message ... WHERE alias = ?1
get_messages_awaiting_encryption(rows, alias) ==
    [i \in 1..Len(SelectSeq(rows, LAMBDA r : r.alias = alias)) |->
        SelectSeq(rows, LAMBDA r : r.alias = alias)[i].message]

\* the KeyResponse arm of receive_message, after initialize_sessions_from_bundle:
\* the pending alias, add_contact, remove_key_request_sent, then the stashed messages
key_response_alias(w, service_id, alias) ==
    send_awaiting(
        [w EXCEPT !.client.contacts = @ \cup {service_id},
                  !.client.nicknames = IF service_id \in w.client.contacts THEN @
                                       ELSE MapPut(@, alias, service_id),
                  !.client.DeniableKeyRequestsSent = MapDel(@, service_id)],
        get_messages_awaiting_encryption(w.client.DeniableMessageAwaitingEncryption, alias),
        alias)

\* the KeyResponse arm of receive_message
key_response(w, service_id) ==
    IF w.client.db.backend = "InMemory"
    THEN ClientFailed([w EXCEPT !.client.db = store_deniable_session(@, service_id,
                                                                     BundleSession)], TRUE)
    ELSE IF service_id \notin DOMAIN w.client.DeniableKeyRequestsSent
    THEN ClientFailed([w EXCEPT !.client.db = store_deniable_session(@, service_id,
                                                                     BundleSession)], TRUE)
    ELSE key_response_alias(
             [w EXCEPT !.client.db = store_deniable_session(@, service_id, BundleSession)],
             service_id, w.client.DeniableKeyRequestsSent[service_id])

\* the for loop of receive_message over the reassembled deniable payloads
RECURSIVE process_deniable_payloads(_, _, _)
process_deniable_payloads(w, deniable_payloads, processed) ==
    IF deniable_payloads = <<>> THEN ClientOk(w, processed)
    ELSE IF Head(deniable_payloads).variant = "Envelope"
    THEN IF Head(deniable_payloads).body = 1
         THEN process_deniable_payloads(w, Tail(deniable_payloads),
                                        Append(processed, "deniable"))
         ELSE ClientFailed(w, FALSE)
    ELSE IF Head(deniable_payloads).variant = "KeyResponse"
    THEN LET r == key_response(w, CHOOSE x \in Peers :
                                      ServiceIdCode[x] = Head(deniable_payloads).body)
         IN  IF r.err THEN r
             ELSE process_deniable_payloads(r.w, Tail(deniable_payloads), processed)
    ELSE ClientFailed(w, TRUE)

\* receive_message from the chunks on: handled is what handle_incoming_chunks returned
receive_chunks(w, handled, processed) ==
    IF handled.panic THEN ClientFailed([w EXCEPT !.incoming = handled.stored], TRUE)
    ELSE process_deniable_payloads([w EXCEPT !.incoming = handled.stored],
                                   handled.payloads, processed)

\* Client::receive_message for an envelope of sender whose overt part decrypts or not
receive_message(w, sender, overt_decrypts, chunks) ==
    IF ~overt_decrypts THEN ClientFailed(w, FALSE)
    ELSE IF WithoutDummies(chunks) = <<>>
    THEN ClientOk([w EXCEPT !.client.db = store_session(@, sender, OvertSession)], <<"overt">>)
    ELSE receive_chunks([w EXCEPT !.client.db = store_session(@, sender, OvertSession)],
                        handle_incoming_chunks(w.incoming, WithoutDummies(chunks)),
                        <<"overt">>)

(***************************************************************************)
(* The client specification: one client with one of the two storage        *)
(* backends sends deniable texts to a peer it has no session with yet and  *)
(* receives the server's envelopes.                                        *)
(***************************************************************************)
\* the chunks an envelope from the server can carry
ChunkBatches ==
    {<<>>, <<DenimChunk(Zeros(2), DUMMY)>>}
        \cup {<<DenimChunk(SerializeVariant(p), FINAL)>> : p \in IncomingVariants}
        \cup {<<DenimChunk(Take(SerializeVariant(p), 1), 0)>> : p \in IncomingVariants}
        \cup {<<DenimChunk(Drop(SerializeVariant(p), 1), FINAL)>> : p \in IncomingVariants}

World == [client |-> client, table |-> table, incoming |-> incoming]

ClientInit ==
    /\ store = EmptyStore
    /\ locked = FALSE
    /\ ret = NoRet
    /\ idLog = <<>>
    /\ firstVal = EmptyMap
    /\ \E backend \in Backends : endpoint = [role |-> "client", backend |-> backend]
    /\ enq = <<>>
    /\ sent = <<>>
    /\ table = <<>>
    /\ wire = <<>>
    /\ incoming = <<>>
    /\ delivered = <<>>
    /\ calls = <<>>
    /\ lockKey = <<>>
    /\ conn = <<>>
    /\ client = [db |-> EmptyDb(endpoint.backend), contacts |-> {}, nicknames |-> EmptyMap,
                 DeniableKeyRequestsSent |-> EmptyMap,
                 DeniableMessageAwaitingEncryption |-> <<>>, panic |-> FALSE]

\* what a call of the client leaves behind: its state, and its result in ret
ClientReturns(op, arg, r) ==
    /\ client' = [r.w.client EXCEPT !.panic = r.panic]
    /\ table' = r.w.table
    /\ incoming' = r.w.incoming
    /\ delivered' = delivered \o r.processed
    /\ ret' = [op |-> op, arg |-> arg, err |-> r.err, panic |-> r.panic,
               processed |-> r.processed]
    /\ UNCHANGED <<store, locked, idLog, firstVal, endpoint, sent, wire, calls, lockKey, conn>>

\* send_deniable(text, alias) for a peer the client has no contact for
AddDeniableContactAndQueueMessage(service_id, text) ==
    /\ ~client.panic
    /\ service_id \notin client.contacts
    /\ Len(enq) < MaxPayloads
    /\ enq' = Append(enq, text)
    /\ \E r \in {add_deniable_contact_and_queue_message(World, service_id, text,
                                                        AliasOf[service_id])} :
           ClientReturns("add_deniable_contact_and_queue_message", text, r)

\* send_deniable(text, alias) for a contact
SendDeniableText(service_id, text) ==
    /\ ~client.panic
    /\ service_id \in client.contacts
    /\ Len(enq) < MaxPayloads
    /\ enq' = Append(enq, text)
    /\ \E r \in {send_deniable_message(World, text, AliasOf[service_id])} :
           ClientReturns("send_deniable_message", text, r)

\* Client::receive_message
ClientReceiveMessage(sender, overt_decrypts, chunks) ==
    /\ ~client.panic
    /\ Len(delivered) < MaxEnvelopes
    /\ enq' = enq
    /\ \E r \in {receive_message(World, sender, overt_decrypts, chunks)} :
           ClientReturns("receive_message", [overt_decrypts |-> overt_decrypts,
                                             chunks |-> chunks], r)

\* an overt exchange with a peer stores its session: SessionStore::store_session
StoreSession(address) ==
    /\ ~client.panic
    /\ load_session(client.db, address) = <<>>
    /\ client' = [client EXCEPT !.db = store_session(@, address, OvertSession)]
    /\ ret' = [op |-> "store_session", arg |-> address]
    /\ UNCHANGED <<store, locked, idLog, firstVal, denimVars, rxVars, calls, lockKey, conn>>

\* a deniable exchange with a peer stores its session: DeniableStore's store_session
StoreDeniableSession(address) ==
    /\ ~client.panic
    /\ load_deniable_session(client.db, address) = <<>>
    /\ client' = [client EXCEPT !.db = store_deniable_session(@, address, BundleSession)]
    /\ ret' = [op |-> "store_deniable_session", arg |-> address]
    /\ UNCHANGED <<store, locked, idLog, firstVal, denimVars, rxVars, calls, lockKey, conn>>

ClientNext ==
    \/ \E x \in Peers, t \in Texts : AddDeniableContactAndQueueMessage(x, t)
    \/ \E x \in Peers, t \in Texts : SendDeniableText(x, t)
    \/ \E x \in Peers, d \in BOOLEAN, cs \in ChunkBatches : ClientReceiveMessage(x, d, cs)
    \/ \E x \in Peers : StoreSession(x)
    \/ \E x \in Peers : StoreDeniableSession(x)

SpecClient == ClientInit /\ [][ClientNext]_vars

(***************************************************************************)
(* Properties of the client.                                               *)
(***************************************************************************)
OvertSessions(db) == [x \in Peers |-> load_session(db, x)]

DeniableSessions(db) == [x \in Peers |-> load_deniable_session(db, x)]

\* C14 (as claimed): with either backend the overt and the deniable session state
\* are disjoint: an operation of the deniable channel leaves every overt session as
\* it is, and an operation of the overt channel leaves every deniable session as it is.
C14_DisjointSessionStores ==
    [][\A x \in Peers, t \in Texts :
          /\ (StoreDeniableSession(x) \/ SendDeniableText(x, t)
                  \/ AddDeniableContactAndQueueMessage(x, t))
                 => OvertSessions(client'.db) = OvertSessions(client.db)
          /\ StoreSession(x) => DeniableSessions(client'.db) = DeniableSessions(client.db)]_vars

\* the payloads of the DeniablePayload table, in queue order
OutgoingPayloads == [i \in 1..Len(table) |-> table[i].content]

\* the SignalMessage payloads send_deniable_message makes of texts, one after the
\* other, from the session record first on
RECURSIVE SignalMessagesFor(_, _, _)
SignalMessagesFor(service_id, texts, first) ==
    IF texts = <<>> THEN <<>>
    ELSE <<SerializeVariant(SignalMessage(service_id, B64Encode(encrypt(first, Head(texts)))))>>
             \o SignalMessagesFor(service_id, Tail(texts), first + 1)

\* the state KeyRequested of the deniable session to x, with no inbound traffic so far
KeyRequestedNoInbound(x) ==
    /\ endpoint.role = "client" /\ endpoint.backend = "Device"
    /\ ~client.panic
    /\ enq # <<>>
    /\ x \notin client.contacts
    /\ delivered = <<>> /\ incoming = <<>>

C16_AwaitingDrained ==
    \A x \in Peers :
        (endpoint.role = "client" /\ ~client.panic /\ x \in client.contacts) =>
            get_messages_awaiting_encryption(client.DeniableMessageAwaitingEncryption,
                                             AliasOf[x]) = <<>>

\* C17 (as claimed): a decryption failure on one ratchet is returned as an error and
\* leaves the other channel alone: when the overt envelope does not decrypt, the
\* deniable chunks that came with it are still buffered, and when a deniable
\* payload does not decrypt, the overt message is still delivered.
C17_ChannelsIndependent ==
    (endpoint.role = "client" /\ "backend" \in DOMAIN endpoint /\ ret.op = "receive_message") =>
        /\ ~ret.arg.overt_decrypts =>
               /\ ret.err /\ ~ret.panic
               /\ \A i \in DOMAIN ret.arg.chunks :
                      ret.arg.chunks[i].flags <= 0 =>
                          \E j \in DOMAIN incoming : incoming[j] = ret.arg.chunks[i]
        /\ (ret.arg.overt_decrypts /\ ret.err /\ ~ret.panic) =>
               \E i \in DOMAIN ret.processed : ret.processed[i] = "overt"

(***************************************************************************)
(* The websocket connection of one device on the server: its message       *)
(* queue in the cache, its entry in the listener map, and the envelopes    *)
(* written to its socket. wc is [store, conn, sent].                       *)
(***************************************************************************)
\* WebSocketConnection::send_message: create_message, send, then delete from the cache;
\* failed: create_denim_message returned Err, which create_message expect()s
send_message(wc, guid, value, q, failed) ==
    IF failed THEN [wc EXCEPT !.conn.panicked = TRUE]
    ELSE IF ~wc.conn.active THEN wc
    ELSE [wc EXCEPT
             !.sent = Append(@, [guid |-> guid, size |-> Len(value),
                                 chunks |-> create_denim_message(EmptyStore, FALSE, q,
                                                                 Len(value)).msg.chunks,
                                 ballast |-> create_denim_message(EmptyStore, FALSE, q,
                                                                  Len(value)).msg.ballast]),
             !.store = remove(@, <<guid>>).st]

\* the for loop of send_messages over what get_messages_for_device returned
RECURSIVE send_envelopes(_, _, _, _)
send_envelopes(wc, envelopes, q, failed) ==
    IF envelopes.guids = <<>> \/ wc.conn.panicked THEN wc
    ELSE send_envelopes(
             send_message(wc, Head(envelopes.guids), BytesDecode(Head(envelopes.values)),
                          q, failed),
             [guids |-> Tail(envelopes.guids), values |-> Tail(envelopes.values)], q, failed)

\* AvailabilityListener::send_cached and send_persisted of the connection (no message
\* is in the database)
send_cached(wc, lock, q, failed) ==
    IF ~wc.conn.active THEN wc
    ELSE send_envelopes(wc, get_values(wc.store, lock, -1), q, failed)

notify_cached_or_drop(wc, lock, q, failed) ==
    IF wc.conn.listener = "live" THEN send_cached(wc, lock, q, failed)
    ELSE [wc EXCEPT !.store = EmptyStore]

\* availability_listener::notify_cached: the listener registered for the address, if
\* any, sends; a listener whose socket has closed finds its connection not active
notify_cached(wc, lock, q, failed) ==
    IF wc.conn.listener = "live" THEN send_cached(wc, lock, q, failed)
    ELSE wc

Connection == [store |-> store, conn |-> conn, sent |-> sent]

ConnectionInit ==
    /\ store = EmptyStore
    /\ locked = FALSE
    /\ ret = NoRet
    /\ idLog = <<>>
    /\ firstVal = EmptyMap
    /\ \E q \in Qs : endpoint = [role |-> "connection", q |-> q]
    /\ enq = <<>>
    /\ sent = <<>>
    /\ table = <<>>
    /\ wire = <<>>
    /\ incoming = <<>>
    /\ delivered = <<>>
    /\ calls = <<>>
    /\ lockKey = <<>>
    /\ client = <<>>
    /\ conn = [stage |-> "closed", active |-> FALSE, listener |-> "none", panicked |-> FALSE]

\* what a handler leaves behind; sending: a connection with an open socket looked for
\* messages to send
ConnectionReturns(op, wc, sending, failed) ==
    /\ store' = wc.store
    /\ conn' = [wc.conn EXCEPT !.panicked = FALSE]
    /\ sent' = wc.sent
    /\ ret' = [op |-> op, sending |-> sending, lock |-> locked, failed |-> failed,
               queued |-> Cardinality(store.queue), panic |-> wc.conn.panicked]
    /\ UNCHANGED <<locked, idLog, firstVal, endpoint, table, rxVars, calls, lockKey, client>>

\* MessagesManager::insert: MessageCache::insert stores the envelope and notifies
InsertMessage(size, failed) ==
    /\ Len(enq) < MaxInserts
    /\ enq' = Append(enq, [guid |-> Uuid(Len(enq) + 1),
                           missed |-> ~(conn.listener = "live" /\ conn.active)])
    /\ \E wc \in {notify_cached(
                      [Connection EXCEPT
                          !.store = insert(@, Uuid(Len(enq) + 1),
                                           Serialize([tag |-> Len(enq) + 1, len |-> size])).st],
                      locked, endpoint.q, failed)} :
           ConnectionReturns("insert", wc, conn.listener = "live" /\ conn.active, failed)

\* create_websocket_endpoint up to send_persisted: the new connection sends what is there
CreateWebsocketEndpoint(failed) ==
    /\ conn.stage = "closed"
    /\ enq' = enq
    /\ \E wc \in {send_cached([Connection EXCEPT !.conn.stage = "upgraded",
                                                 !.conn.active = TRUE],
                              locked, endpoint.q, failed)} :
           ConnectionReturns("send_persisted", wc, TRUE, failed)

\* create_websocket_endpoint from add_message_availability_listener on
AddMessageAvailabilityListener ==
    /\ conn.stage = "upgraded"
    /\ conn' = [conn EXCEPT !.stage = "listening", !.listener = "live"]
    /\ ret' = [op |-> "add_message_availability_listener"]
    /\ UNCHANGED <<store, locked, idLog, firstVal, denimVars, rxVars, calls, lockKey, client>>

\* the socket closes; the entry in the listener map stays
CloseConnection ==
    /\ conn.stage # "closed"
    /\ conn' = [conn EXCEPT !.stage = "closed", !.active = FALSE,
                            !.listener = IF @ = "live" THEN "stale" ELSE @]
    /\ ret' = [op |-> "close"]
    /\ UNCHANGED <<store, locked, idLog, firstVal, denimVars, rxVars, calls, lockKey, client>>

ConnectionNext ==
    \/ \E size \in PayloadLens, failed \in BOOLEAN : InsertMessage(size, failed)
    \/ \E failed \in BOOLEAN : CreateWebsocketEndpoint(failed)
    \/ AddMessageAvailabilityListener
    \/ CloseConnection
    \/ LockQueue
    \/ UnlockQueue

SpecConnection == ConnectionInit /\ [][ConnectionNext]_vars

(***************************************************************************)
(* Properties of the websocket connection.                                 *)
(***************************************************************************)
SentGuids == {sent[j].guid : j \in DOMAIN sent}

\* the last handler had a connection with an open socket send what the queue held
SentQueue(failed) ==
    /\ endpoint.role = "connection"
    /\ ret.op \in {"insert", "send_persisted"}
    /\ ret.sending /\ ~ret.lock /\ ret.failed = failed
    /\ ret.op = "insert" \/ ret.queued > 0

\* C18 (as claimed): when the chunk assembly for an overt envelope fails on the
\* server, the overt envelope is still sent, with no chunk and with ballast of
\* ceil(|overt| * q) bytes, and the connection keeps running.
C18_OvertSentOnChunkFailure ==
    SentQueue(TRUE) =>
        /\ ~ret.panic
        /\ store.queue = {}
        /\ sent # <<>>
        /\ sent[Len(sent)].chunks = <<>>
        /\ Len(sent[Len(sent)].ballast) = CeilOfProduct(sent[Len(sent)].size, endpoint.q)

Malformed(cs) ==
    LET final == cs[Len(cs)].chunk
    IN  [cs EXCEPT ![Len(cs)].chunk = IF final = <<>> THEN <<0>>
                                      ELSE [final EXCEPT ![Len(final)] = 0]]

MalformedInit ==
    /\ store = EmptyStore
    /\ locked = FALSE
    /\ ret = NoRet
    /\ idLog = <<>>
    /\ firstVal = EmptyMap
    /\ sent = <<>>
    /\ table = <<>>
    /\ incoming = <<>>
    /\ delivered = <<>>
    /\ calls = <<>> /\ lockKey = <<>> /\ client = <<>> /\ conn = <<>>
    /\ \E len1, len2, len3 \in PayloadLens, n \in CutSizes, b \in BatchSizes,
          role \in {"server", "client"}, place \in 1..3 :
          LET p1      == [tag |-> 1, len |-> len1]
              p2      == [tag |-> 2, len |-> len2]
              good1   == OrderedChunks(p1, n)
              good2   == OrderedChunks(p2, n)
              bad     == Malformed(OrderedChunks([tag |-> 1, len |-> len3], n))
              arrival == IF place = 1 THEN bad \o good1 \o good2
                         ELSE IF place = 2 THEN good1 \o bad \o good2
                         ELSE good1 \o good2 \o bad
          IN  /\ enq = <<[payload |-> p1, behind |-> {}], [payload |-> p2, behind |-> {}]>>
              /\ endpoint = [role |-> role, arrival |-> arrival, place |-> place]
              /\ wire = Batches(arrival, b)

SpecMalformed == MalformedInit /\ [][ReassemblyNext]_vars

\* C19 (as claimed): a Final whose accumulated bytes do not deserialize fails no call,
\* neither as an error nor as a panic; the payloads the other Finals complete are
\* returned, those of the same batch included; and the chunks of the malformed payload
\* are in no payload that is returned and are not held back once all has arrived.
C19_MalformedFinalDropsOnlyItsChunks ==
    /\ ret # NoRet => ~ret.failed
    /\ \A i \in DOMAIN delivered : i <= Len(enq) /\ delivered[i] = enq[i].payload
    /\ (wire = <<>>) => (Len(delivered) = Len(enq) /\ incoming = <<>>)

(***************************************************************************)
(* Further properties of the buffer store.                                 *)
(***************************************************************************)
\* the guids of a remove call that have an entry in store st
PresentGuids(st, guids) == SelectSeq(guids, LAMBDA g : g \in DOMAIN st.meta)

\* the value stored in st under a guid that is present
StoredValue(st, guid) ==
    BytesDecode((CHOOSE e \in st.queue : e.score = st.meta[guid]).member)

\* C21: remove(queue, field_guids) returns exactly the values stored under the given
\* guids that were present, in the order of the guids; it deletes their entries from the
\* queue and from both metadata maps and leaves every other entry as it was; when the
\* queue is empty afterwards the queue and its metadata are deleted and the queue is
\* taken out of the global index, and otherwise the index is not touched.
C21_RemoveStep ==
    ret'.op = "remove" =>
        LET present == PresentGuids(store, ret'.guids)
            gone    == {present[i] : i \in DOMAIN present}
            ids     == {store.meta[g] : g \in gone}
        IN  /\ ret'.removed = [i \in DOMAIN present |-> StoredValue(store, present[i])]
            /\ store'.queue = {e \in store.queue : e.score \notin ids}
            /\ DOMAIN store'.rev = DOMAIN store.rev \ ids
            /\ \A i \in DOMAIN store'.rev : store'.rev[i] = store.rev[i]
            /\ DOMAIN store'.meta = DOMAIN store.meta \ gone
            /\ \A g \in DOMAIN store'.meta : store'.meta[g] = store.meta[g]
            /\ (store'.queue = {}) => (~store'.indexed /\ store'.meta = EmptyMap)
            /\ (store'.queue # {}) => (store'.indexed = store.indexed
                                       /\ store'.counter = store.counter)

BufferBytes(st) ==
    LET entries == ZRangeAll(st.queue)
    IN  Flatten([i \in 1..Len(entries) |-> BytesDecode(entries[i].member)])

DequeueInit ==
    /\ store = EmptyStore
    /\ locked = FALSE
    /\ ret = NoRet
    /\ idLog = <<>>
    /\ firstVal = EmptyMap
    /\ endpoint \in {[role |-> "server", q |-> q, overflow_checks |-> TRUE] : q \in Qs}
    /\ enq = <<>>
    /\ sent = <<>>
    /\ table = <<>>
    /\ wire = <<>>
    /\ incoming = <<>>
    /\ delivered = <<>>
    /\ calls = <<>> /\ lockKey = <<>> /\ client = <<>> /\ conn = <<>>

\* DenIMManager::dequeue_payload_data(receiver, bytes_amount)
DequeuePayloadData(bytes_amount) ==
    /\ \E r \in {dequeue_payload_data(store, locked, bytes_amount)} :
           /\ store' = r.st
           /\ ret' = [op |-> "dequeue_payload_data", n |-> bytes_amount, chunks |-> r.chunks,
                      err |-> r.err, lock |-> locked, was |-> store]
    /\ UNCHANGED <<locked, idLog, firstVal, denimVars, rxVars, auxVars>>

DequeueNext ==
    \/ \E len \in PayloadLens : SetDeniablePayloads(len)
    \/ \E n \in 0..MaxDequeueBytes : DequeuePayloadData(n)
    \/ LockQueue
    \/ UnlockQueue

SpecDequeue == DequeueInit /\ [][DequeueNext]_vars

\* C22: with the persist lock clear dequeue_payload_data(receiver, n) returns without
\* error chunks whose bytes are the first min(n, buffered) bytes of the buffer in queue
\* order, none of them a Dummy, and the buffer holds exactly the remaining bytes
\* afterwards; with n = 0 nothing is returned and the buffer, the rank of its head
\* entry included, is as it was.
C22_DequeueExact ==
    ret.op = "dequeue_payload_data" =>
        /\ ~ret.lock =>
               /\ ~ret.err
               /\ ChunkBytes(ret.chunks) = Take(BufferBytes(ret.was), ret.n)
               /\ Len(ChunkBytes(ret.chunks)) = Min(ret.n, Len(BufferBytes(ret.was)))
               /\ BufferBytes(store) = Drop(BufferBytes(ret.was), ret.n)
               /\ \A i \in DOMAIN ret.chunks :
                      ~is_dummy(ret.chunks[i]) /\ ret.chunks[i].chunk # <<>>
        /\ ret.n = 0 => (ret.chunks = <<>> /\ store = ret.was)

\* a dequeue has taken the whole first payload and the first byte of the second, whose
\* rest stays in the buffer
C22_Witness ==
    /\ ret.op = "dequeue_payload_data" /\ ~ret.lock
    /\ Len(ret.chunks) = 2
    /\ is_final(ret.chunks[1]) /\ ret.chunks[2].flags = 0
    /\ \E e \in store.queue : get_order_metadata(e.member) = -1

(***************************************************************************)
(* The pending-chunk specification: the chunks of two payloads arrive in   *)
(* order at a receiving endpoint, cut into envelopes so that Data chunks   *)
(* wait for their Final over several envelopes, one of which carries no    *)
(* chunk or only a Dummy.                                                  *)
(***************************************************************************)
IdleBatches == {<<>>, <<DenimChunk(Zeros(1), DUMMY)>>}

PendingInit ==
    /\ store = EmptyStore
    /\ locked = FALSE
    /\ ret = NoRet
    /\ idLog = <<>>
    /\ firstVal = EmptyMap
    /\ sent = <<>>
    /\ table = <<>>
    /\ incoming = <<>>
    /\ delivered = <<>>
    /\ calls = <<>> /\ lockKey = <<>> /\ client = <<>> /\ conn = <<>>
    /\ \E len1, len2 \in PayloadLens, n \in CutSizes, b \in BatchSizes,
          role \in {"server", "client"}, idle \in IdleBatches :
          LET p1      == [tag |-> 1, len |-> len1]
              p2      == [tag |-> 2, len |-> len2]
              arrival == OrderedChunks(p1, n) \o OrderedChunks(p2, n)
              batches == Batches(arrival, b)
          IN  \E at \in 1..Len(batches) :
                  /\ enq = <<[payload |-> p1, behind |-> {}], [payload |-> p2, behind |-> {}]>>
                  /\ endpoint = [role |-> role, arrival |-> arrival, idle |-> at,
                                 envelopes |-> Len(batches) + 1]
                  /\ wire = InsertAt(batches, at, idle)

SpecPending == PendingInit /\ [][ReassemblyNext]_vars

\* the bytes of the payloads delivered so far
DeliveredBytes == Flatten([i \in 1..Len(delivered) |-> Serialize(delivered[i])])

\* the bytes of the chunks still to arrive
WireBytes == ChunkBytes(WithoutDummies(Flatten(wire)))

\* C23: Data chunks that have arrived without their Final stay in the incoming chunk
\* buffer over every later envelope, with or without chunks, and over every reassembly
\* pass, until the next Final uses them, once: no call fails, and at every moment the
\* bytes delivered, the bytes held in the buffer and the bytes still to arrive are
\* together exactly the bytes sent, each byte in one place; the buffer holds only Data
\* chunks, and is empty once the last Final has come.
C23_PendingChunksKept ==
    /\ ret # NoRet => ~ret.failed
    /\ DeliveredBytes \o ChunkBytes(SortChunks(incoming)) \o WireBytes
           = ChunkBytes(endpoint.arrival)
    /\ \A i \in DOMAIN incoming : incoming[i].flags <= 0
    /\ \A i \in DOMAIN delivered : delivered[i] = enq[i].payload
    /\ (wire = <<>>) => (Len(delivered) = Len(enq) /\ incoming = <<>>)

\* Data chunks of the second payload, stored by the pass that reassembled the first,
\* are still in the buffer after an envelope that brought no chunk
C23_Witness ==
    /\ Len(delivered) = 1
    /\ incoming # <<>>
    /\ endpoint.envelopes - Len(wire) = endpoint.idle
    /\ wire # <<>>

(***************************************************************************)
(* Further properties of the emitted envelopes.                            *)
(***************************************************************************)
\* C24: every chunk emitted with the flag Dummy, by the client's chunker or by the
\* server, holds zero bytes only; the bytes of the deniable payloads, none of which is
\* zero, go out in Data and Final chunks only, as a part of the payload they belong to.
C24_DummyCarriesNothing ==
    \A i \in DOMAIN EmittedChunks :
        \A c \in {EmittedChunks[i]} :
            IF is_dummy(c)
            THEN \A b \in DOMAIN c.chunk : c.chunk[b] = 0
            ELSE /\ c.flags = FINAL \/ c.flags <= 0
                 /\ c.chunk # <<>>
                 /\ \A b \in DOMAIN c.chunk : c.chunk[b] # 0
                 /\ \E from \in 1..enq[TagOf(c.chunk)].payload.len :
                        c.chunk = SubSeq(Serialize(enq[TagOf(c.chunk)].payload), from,
                                         from + Len(c.chunk) - 1)

\* an envelope holds the Final of a payload and after it a Dummy that fills the slack
C24_Witness ==
    \E i \in DOMAIN sent :
        \E j \in DOMAIN sent[i].chunks :
            /\ j > 1
            /\ is_final(sent[i].chunks[j - 1])
            /\ is_dummy(sent[i].chunks[j])
            /\ Len(sent[i].chunks[j].chunk) > 0

(***************************************************************************)
(* The notification specification: two websocket connections, A and B,     *)
(* each the Arc<Mutex<WebSocketConnection>> registered in the listener map *)
(* shared by the message, payload and chunk caches. The task that reads a  *)
(* connection's socket calls on_receive(&mut self) under the connection's  *)
(* mutex; the request inserts for a target address and notify_cached then  *)
(* takes the map's mutex and, under it, the target listener's mutex.       *)
(***************************************************************************)
Addresses == {"A", "B"}

Free == "free"

IdleRequest == [pc |-> "idle", target |-> "", guid |-> "", registered |-> FALSE,
                evoked |-> FALSE]

NotifyInit ==
    /\ store = [a \in Addresses |-> EmptyStore]
    /\ locked = FALSE
    /\ ret = NoRet
    /\ idLog = <<>>
    /\ firstVal = EmptyMap
    /\ endpoint \in {[role |-> "server", q |-> q] : q \in Qs}
    /\ enq = <<>>
    /\ sent = <<>>
    /\ table = <<>>
    /\ wire = <<>>
    /\ incoming = <<>>
    /\ delivered = <<>>
    /\ calls = [c \in Addresses |-> IdleRequest]
    /\ lockKey = <<>>
    /\ client = <<>>
    /\ \E registered \in SUBSET Addresses :
           conn = [listeners |-> registered, map |-> Free,
                   mutex |-> [a \in Addresses |-> Free]]

NotifyUnchanged == UNCHANGED <<locked, idLog, firstVal, endpoint, table, rxVars, lockKey, client>>

\* the task of connection c takes the connection's mutex and calls on_receive with a
\* request that inserts for target
OnReceive(c, target) ==
    /\ calls[c].pc = "idle"
    /\ conn.mutex[c] = Free
    /\ conn' = [conn EXCEPT !.mutex[c] = c]
    /\ calls' = [calls EXCEPT ![c].pc = "insert", ![c].target = target]
    /\ ret' = [op |-> "on_receive", by |-> c]
    /\ UNCHANGED <<store, enq, sent>>
    /\ NotifyUnchanged

\* handle_put_messages: MessagesManager::insert up to the return of redis::insert
CacheInsert(c) ==
    /\ calls[c].pc = "insert"
    /\ \E guid \in {Uuid(Len(enq) + 1)} :
           /\ store' = [store EXCEPT ![calls[c].target] =
                            insert(@, guid, Serialize([tag |-> 1, len |-> 2])).st]
           /\ enq' = Append(enq, [guid |-> guid, by |-> c, to |-> calls[c].target])
           /\ calls' = [calls EXCEPT ![c].pc = "notify", ![c].guid = guid]
    /\ ret' = [op |-> "insert", by |-> c]
    /\ UNCHANGED <<conn, sent>>
    /\ NotifyUnchanged

\* notify_cached: listeners.lock().await.get(..); with no listener for the target the
\* guard is dropped at once, with one it is held over the body of the if let
NotifyCached(c) ==
    /\ calls[c].pc = "notify"
    /\ conn.map = Free
    /\ IF calls[c].target \in conn.listeners
       THEN /\ conn' = [conn EXCEPT !.map = c]
            /\ calls' = [calls EXCEPT ![c].pc = "listener", ![c].registered = TRUE]
       ELSE /\ conn' = conn
            /\ calls' = [calls EXCEPT ![c].pc = "respond"]
    /\ ret' = [op |-> "notify_cached", by |-> c]
    /\ UNCHANGED <<store, enq, sent>>
    /\ NotifyUnchanged

\* listener.lock().await inside notify_cached
ListenerLock(c) ==
    /\ calls[c].pc = "listener"
    /\ conn.mutex[calls[c].target] = Free
    /\ conn' = [conn EXCEPT !.mutex[calls[c].target] = c]
    /\ calls' = [calls EXCEPT ![c].pc = "callback"]
    /\ ret' = [op |-> "listener_lock", by |-> c]
    /\ UNCHANGED <<store, enq, sent>>
    /\ NotifyUnchanged

\* send_cached of the target connection, then both guards are dropped
ListenerCallback(c) ==
    /\ calls[c].pc = "callback"
    /\ \E wc \in {send_cached([store |-> store[calls[c].target],
                               conn  |-> [active |-> TRUE, panicked |-> FALSE],
                               sent  |-> <<>>],
                              locked /\ lockKey.address = calls[c].target,
                              endpoint.q, FALSE)} :
           /\ store' = [store EXCEPT ![calls[c].target] = wc.store]
           /\ sent' = sent \o [i \in 1..Len(wc.sent) |->
                                  [guid |-> wc.sent[i].guid, to |-> calls[c].target]]
    /\ conn' = [conn EXCEPT !.map = Free, !.mutex[calls[c].target] = Free]
    /\ calls' = [calls EXCEPT ![c].pc = "respond", ![c].evoked = TRUE]
    /\ ret' = [op |-> "send_cached", by |-> c]
    /\ UNCHANGED enq
    /\ NotifyUnchanged

\* handle_request sends the response; on_receive returns and the connection's mutex
\* guard is dropped
Respond(c) ==
    /\ calls[c].pc = "respond"
    /\ conn' = [conn EXCEPT !.mutex[c] = Free]
    /\ calls' = [calls EXCEPT ![c].pc = "done"]
    /\ ret' = [op |-> "respond", by |-> c]
    /\ UNCHANGED <<store, enq, sent>>
    /\ NotifyUnchanged

NotifyNext ==
    \/ \E c \in Addresses, target \in Addresses : OnReceive(c, target)
    \/ \E c \in Addresses : CacheInsert(c)
    \/ \E c \in Addresses : NotifyCached(c)
    \/ \E c \in Addresses : ListenerLock(c)
    \/ \E c \in Addresses : ListenerCallback(c)
    \/ \E c \in Addresses : Respond(c)

SpecNotify == NotifyInit /\ [][NotifyNext]_vars

\* the runtime keeps polling every task that can go on
SpecNotifyFair == NotifyInit /\ [][NotifyNext]_vars /\ WF_vars(NotifyNext)

\* C30 (as claimed): when the connections A and B each handle a request that inserts
\* for the other or for their own address, both requests complete whatever the
\* interleaving.
C30_BothRequestsComplete == <>(\A c \in Addresses : calls[c].pc = "done")

\* C25 (as claimed): every insert for an address that has a registered listener is
\* followed by the listener's send_cached, and the insert then completes; an insert
\* for an address with no listener completes with no callback run.
C25_InsertRunsCallback ==
    /\ \A c \in Addresses :
           (calls[c].pc = "notify" /\ calls[c].target \in conn.listeners)
               ~> (calls[c].pc = "done" /\ calls[c].evoked)
    /\ \A c \in Addresses :
           (calls[c].pc = "notify" /\ calls[c].target \notin conn.listeners)
               ~> (calls[c].pc = "done" /\ ~calls[c].evoked)

(***************************************************************************)
(* The buffers of the payload cache: one queue per role and address, each  *)
(* under the key get_queue_key formats (its metadata and lock keys are     *)
(* formatted from the same parts; the chunk cache differs in the prefix).  *)
(***************************************************************************)
Buffers == {"sender", "receiver"}

BufferAddresses == {<<"alice", 1>>, <<"alice", 2>>, <<"bob", 1>>}

BufferIds == Buffers \X BufferAddresses

get_queue_key_no_role(address, buffer) ==
    <<"payload_", "queue::{", address[1], "::", address[2], "}">>

\* format!("payload_{}_queue::{{{}::{}}}", buffer, address.name(), address.device_id())
get_queue_key(address, buffer) ==
    <<"payload_", buffer, "_queue::{", address[1], "::", address[2], "}">>

KeyOf(id) == get_queue_key(id[2], id[1])

BufferKeys == {KeyOf(id) : id \in BufferIds}

BuffersInit ==
    /\ store = [k \in BufferKeys |-> EmptyStore]
    /\ locked = FALSE
    /\ ret = NoRet
    /\ idLog = <<>>
    /\ firstVal = EmptyMap
    /\ endpoint = [role |-> "server"]
    /\ enq = <<>>
    /\ sent = <<>>
    /\ table = <<>>
    /\ wire = <<>>
    /\ incoming = <<>>
    /\ delivered = <<>>
    /\ AuxIdle

BuffersUnchanged == UNCHANGED <<locked, idLog, firstVal, endpoint, sent, table, rxVars, auxVars>>

\* PayloadCache::insert with a fresh uuid
BufferInsert(id) ==
    /\ Len(enq) < MaxInserts
    /\ \E guid \in {Uuid(Len(enq) + 1)} :
           /\ store' = [store EXCEPT ![KeyOf(id)] =
                            insert(@, guid, Serialize([tag |-> Len(enq) + 1, len |-> 2])).st]
           /\ enq' = Append(enq, [guid |-> guid, id |-> id])
           /\ ret' = [op |-> "insert", id |-> id]
    /\ BuffersUnchanged

\* PayloadCache::remove
BufferRemove(id, guid) ==
    /\ store' = [store EXCEPT ![KeyOf(id)] = remove(@, <<guid>>).st]
    /\ ret' = [op |-> "remove", id |-> id]
    /\ UNCHANGED enq
    /\ BuffersUnchanged

\* PayloadCache::take_values
BufferTakeValues(id, data_size) ==
    /\ \E r \in {take_values(store[KeyOf(id)], locked, data_size)} :
           /\ store' = [store EXCEPT ![KeyOf(id)] = r.st]
           /\ ret' = [op |-> "take_values", id |-> id, taken |-> r.result # <<>>]
    /\ UNCHANGED enq
    /\ BuffersUnchanged

BuffersNext ==
    \/ \E id \in BufferIds : BufferInsert(id)
    \/ \E id \in BufferIds, i \in DOMAIN enq : BufferRemove(id, enq[i].guid)
    \/ \E id \in BufferIds, n \in 1..MaxTake : BufferTakeValues(id, n)

SpecBuffers == BuffersInit /\ [][BuffersNext]_vars

\* C27: an insert into, a removal from or a dequeue from the buffer of one role and
\* address leaves the buffer of the other role of that address, and every buffer
\* of every other address, as it was.
C27_OtherBuffersStep ==
    (ret'.op \in {"insert", "remove", "take_values"}) =>
        \A other \in BufferIds :
            other # ret'.id => store'[KeyOf(other)] = store[KeyOf(other)]

AccountDevices == [alice |-> {1, 2}, bob |-> {1, 2}]

AccountAddresses ==
    UNION {{<<a, d>> : d \in AccountDevices[a]} : a \in DOMAIN AccountDevices}

PreKeyRequest(service_id) == [variant |-> "KeyRequest", service_id |-> service_id]

PreKeyResponse(service_id, device_id) ==
    [variant |-> "KeyResponse", service_id |-> service_id, device_id |-> device_id]

DeniableSignalMessage(destination_service_id) ==
    [variant |-> "SignalMessage", destination_service_id |-> destination_service_id]

\* SignalMessage::to_envelope(receiver_service_id, sender_account, sender_device_id, ..)
to_envelope(signal_message, receiver_service_id, sender) ==
    [variant |-> "Envelope", destination_service_id |-> receiver_service_id,
     source_service_id |-> sender[1], source_device |-> sender[2]]

RoutedPayloads ==
    {PreKeyRequest(t) : t \in {"bob", "nobody"}}
        \cup {DeniableSignalMessage(t) : t \in {"bob", "nobody"}}
        \cup {to_envelope(DeniableSignalMessage("bob"), "bob", <<"bob", 1>>)}

RoutedBatches == {<<p>> : p \in RoutedPayloads} \cup (RoutedPayloads \X RoutedPayloads)

ServiceIdByte == [alice |-> 1, bob |-> 2, nobody |-> 9]

\* bincode::serialize(&DeniablePayload)
RoutedBytes(p) ==
    IF p.variant = "KeyResponse"
    THEN <<VariantIndex[p.variant], ServiceIdByte[p.service_id], p.device_id>>
    ELSE <<VariantIndex[p.variant], ServiceIdByte[p.destination_service_id],
           ServiceIdByte[p.source_service_id], p.source_device>>

route_payload_to_target(sender, receiver_device_id, p) ==
    IF p.variant = "KeyRequest"
    THEN IF p.service_id \in DOMAIN AccountDevices
         THEN [end |-> "none", account |-> p.service_id,
               payload |-> PreKeyResponse(p.service_id, receiver_device_id)]
         ELSE [end |-> "panic"]
    ELSE IF p.variant = "SignalMessage"
    THEN IF p.destination_service_id \in DOMAIN AccountDevices
         THEN [end |-> "none", account |-> p.destination_service_id,
               payload |-> to_envelope(p, p.destination_service_id, sender)]
         ELSE [end |-> "err"]
    ELSE [end |-> "skip"]

\* the match on one reassembled payload: the account it is held for and what is held,
\* or the way the handler ends
route_payload(sender, receiver_device_id, p) ==
    IF p.variant = "KeyRequest"
    THEN IF p.service_id \in DOMAIN AccountDevices
         THEN [end |-> "none", account |-> sender[1],
               payload |-> PreKeyResponse(p.service_id, receiver_device_id)]
         ELSE [end |-> "panic"]
    ELSE IF p.variant = "SignalMessage"
    THEN IF p.destination_service_id \in DOMAIN AccountDevices
         THEN [end |-> "none", account |-> p.destination_service_id,
               payload |-> to_envelope(p, p.destination_service_id, sender)]
         ELSE [end |-> "err"]
    ELSE [end |-> "skip"]

\* the loop over deniable_payloads, filling account_payloads_map
RECURSIVE route_loop(_, _, _, _)
route_loop(sender, receiver_device_id, payloads, held) ==
    IF payloads = <<>> THEN [end |-> "none", held |-> held]
    ELSE LET r == route_payload(sender, receiver_device_id, Head(payloads))
         IN  IF r.end \in {"panic", "err"} THEN [end |-> r.end, held |-> <<>>]
             ELSE route_loop(sender, receiver_device_id, Tail(payloads),
                             IF r.end = "skip" THEN held
                             ELSE Append(held, [account |-> r.account, payload |-> r.payload]))

HeldFor_all(held, account) == held

\* account_payloads_map[account]
HeldFor(held, account) ==
    SelectSeq(held, LAMBDA h : h.account = account)

\* what the loops over account_payloads_map and account.devices() enqueue, as
\* (address, payload) pairs, the accounts taken in the order given
RECURSIVE enqueue_pairs(_, _, _)
enqueue_pairs(held, accounts, devices) ==
    IF accounts = <<>> THEN <<>>
    ELSE IF devices = {}
    THEN IF Len(accounts) = 1 THEN <<>>
         ELSE enqueue_pairs(held, Tail(accounts), AccountDevices[accounts[2]])
    ELSE LET d  == CHOOSE x \in devices : \A y \in devices : x <= y
             hs == HeldFor(held, Head(accounts))
         IN  [i \in 1..Len(hs) |-> [address |-> <<Head(accounts), d>>, payload |-> hs[i].payload]]
                 \o enqueue_pairs(held, accounts, devices \ {d})

\* DenIMManager::enqueue_outgoing_payload_buffer for each pair: PayloadCache::insert into
\* the receiver-role buffer under a fresh uuid
RECURSIVE enqueue_outgoing_payload_buffer(_, _, _)
enqueue_outgoing_payload_buffer(db, pairs, n) ==
    IF pairs = <<>> THEN db
    ELSE enqueue_outgoing_payload_buffer(
             [db EXCEPT ![get_queue_key(Head(pairs).address, "receiver")] =
                  insert(@, Uuid(n + 1), RoutedBytes(Head(pairs).payload)).st],
             Tail(pairs), n + 1)

AccountOrders(held) ==
    LET as == {held[i].account : i \in DOMAIN held}
    IN  {o \in UNION {[1..k -> as] : k \in 0..2} :
            /\ Len(o) = Cardinality(as)
            /\ \A i, j \in DOMAIN o : i # j => o[i] # o[j]}

RoutingInit ==
    /\ store = [k \in {get_queue_key(a, b) : a \in AccountAddresses, b \in Buffers} |-> EmptyStore]
    /\ locked = FALSE
    /\ ret = NoRet
    /\ idLog = <<>>
    /\ firstVal = EmptyMap
    /\ endpoint = [role |-> "server", sender |-> <<"alice", 1>>]
    /\ enq = <<>>
    /\ sent = <<>>
    /\ table = <<>>
    /\ wire = <<>>
    /\ incoming = <<>>
    /\ delivered = <<>>
    /\ calls = 0 /\ lockKey = <<>> /\ client = <<>> /\ conn = <<>>

\* handle_receiving_chunks once flush_incoming_chunk_buffer has returned the payloads
\* reassembled from the sender's chunks; destination is the account of the overt message
RouteDeniablePayloads(destination, deniable_payloads) ==
    /\ calls < MaxEnvelopes
    /\ calls' = calls + 1
    /\ \E r \in {route_loop(endpoint.sender,
                            CHOOSE x \in AccountDevices[destination] :
                                \A y \in AccountDevices[destination] : x <= y,
                            deniable_payloads, <<>>)} :
       \E order \in AccountOrders(r.held) :
       \E pairs \in {IF order = <<>> THEN <<>>
                     ELSE enqueue_pairs(r.held, order, AccountDevices[order[1]])} :
           /\ store' = enqueue_outgoing_payload_buffer(store, pairs, Len(enq))
           /\ enq' = enq \o [i \in 1..Len(pairs) |->
                                [guid |-> Uuid(Len(enq) + i), address |-> pairs[i].address,
                                 payload |-> pairs[i].payload]]
           /\ ret' = [op |-> "handle_receiving_chunks", payloads |-> deniable_payloads,
                      end |-> r.end, from |-> Len(enq), destination |-> destination]
    /\ UNCHANGED <<locked, idLog, firstVal, endpoint, sent, table, rxVars, lockKey, client, conn>>

RoutingNext ==
    \E destination \in DOMAIN AccountDevices, batch \in RoutedBatches :
        RouteDeniablePayloads(destination, batch)

SpecRouting == RoutingInit /\ [][RoutingNext]_vars

\* the enqueues of the last call
Enqueued == SubSeq(enq, ret.from + 1, Len(enq))

CountIn(seq, Test(_)) == Cardinality({i \in DOMAIN seq : Test(seq[i])})

\* every logged enqueue is held by the receiver-role buffer of its address, with the
\* bytes of its payload
Buffered(e) ==
    \E st \in {store[get_queue_key(e.address, "receiver")]} :
        /\ e.guid \in DOMAIN st.meta
        /\ \E m \in st.queue : /\ m.score = st.meta[e.guid]
                               /\ BytesDecode(m.member) = RoutedBytes(e.payload)

DeliveryInit ==
    /\ store = EmptyStore
    /\ locked = FALSE
    /\ ret = NoRet
    /\ idLog = <<>>
    /\ firstVal = EmptyMap
    /\ endpoint \in {[role |-> r, q |-> q, overflow_checks |-> TRUE] :
                         r \in {"server", "client"}, q \in Qs}
    /\ enq = <<>>
    /\ sent = <<>>
    /\ table = <<>>
    /\ wire = <<>>
    /\ incoming = <<>>
    /\ delivered = <<>>
    /\ calls = <<>> /\ lockKey = <<>> /\ client = <<>>
    /\ conn = [cache |-> EmptyStore, inserted |-> 0]

\* MessagesManager::insert of an overt envelope of the given encoded length
DeliveryInsert(size) ==
    /\ endpoint.role = "server"
    /\ conn.inserted < MaxEnvelopes
    /\ conn' = [cache    |-> insert(conn.cache, Uuid(conn.inserted + 1), Zeros(size)).st,
                inserted |-> conn.inserted + 1]
    /\ ret' = [op |-> "insert"]
    /\ UNCHANGED <<store, locked, idLog, firstVal, endpoint, enq, sent, table, rxVars,
                   calls, lockKey, client>>

\* WebSocketConnection::send_message for a cached envelope: create_message, then
\* send, then MessagesManager::delete when the socket took the message
DeliverMessage(guid, socket_ok) ==
    /\ endpoint.role = "server"
    /\ guid \in DOMAIN conn.cache.meta
    /\ \E r \in {create_denim_message(store, locked, endpoint.q,
                     Len(BytesDecode(CHOOSE m \in {e.member : e \in conn.cache.queue} :
                                         get_field_metadata(m) = conn.cache.meta[guid])))} :
           /\ store' = r.st
           /\ sent' = IF ~r.err /\ socket_ok
                      THEN Append(sent, Envelope(0, r.msg.chunks, r.msg.ballast))
                      ELSE sent
           /\ conn' = IF ~r.err /\ socket_ok
                      THEN [conn EXCEPT !.cache = remove(@, <<guid>>).st]
                      ELSE conn
           /\ ret' = [op |-> "send_message", delivered |-> ~r.err /\ socket_ok,
                      panic |-> r.err,
                      taken |-> IF r.err THEN 0 ELSE Len(ChunkBytes(WithoutDummies(r.msg.chunks)))]
    /\ UNCHANGED <<locked, idLog, firstVal, endpoint, enq, table, rxVars, calls, lockKey, client>>

\* Client::send_message for one device: chunks from the Chunker, then
\* server_api.send_msg, tried again once with the same messages when it fails
ClientDeliverMessage(size, first_ok, second_ok) ==
    /\ endpoint.role = "client"
    /\ conn.inserted < MaxEnvelopes
    /\ conn' = [conn EXCEPT !.inserted = @ + 1]
    /\ \E r \in {create_chunks(endpoint.q, size, endpoint.overflow_checks, table)} :
           /\ table' = r.rows
           /\ sent' = IF ~r.panic /\ (first_ok \/ second_ok)
                      THEN Append(sent, Envelope(size, r.chunks, Zeros(r.free_space)))
                      ELSE sent
           /\ ret' = [op |-> "send_message", delivered |-> ~r.panic /\ (first_ok \/ second_ok),
                      panic |-> r.panic,
                      taken |-> IF r.panic THEN 0 ELSE Len(ChunkBytes(WithoutDummies(r.chunks)))]
    /\ UNCHANGED <<store, locked, idLog, firstVal, endpoint, enq, rxVars, calls, lockKey, client>>

DeliveryNext ==
    \/ \E len \in PayloadLens : SetDeniablePayloads(len)
    \/ \E len \in PayloadLens : SendDeniableMessage(len)
    \/ \E size \in ServerSizes : DeliveryInsert(size)
    \/ \E guid \in {Uuid(n) : n \in 1..MaxEnvelopes}, socket_ok \in BOOLEAN :
           DeliverMessage(guid, socket_ok)
    \/ \E size \in ClientSizes, first_ok \in BOOLEAN, second_ok \in BOOLEAN :
           ClientDeliverMessage(size, first_ok, second_ok)

SpecDelivery == DeliveryInit /\ [][DeliveryNext]_vars

\* the payload bytes that left the buffer in a delivered envelope
DeliveredChunkBytes == Len(ChunkBytes(WithoutDummies(EmittedChunks)))

\* C31 (as claimed): payload bytes dequeued for an envelope that is not delivered are
\* not lost: every byte enqueued is in the outgoing buffer or in a delivered envelope.
C31_DequeuedBytesKept ==
    QueuedBytes + DeliveredChunkBytes
        = Len(Flatten([i \in 1..Len(enq) |-> Serialize(enq[i].payload)]))

(***************************************************************************)
(* The persister's unlock beside the requests of the connections: lockKey  *)
(* is the persister's position and the address whose queue it has locked   *)
(* (no message of that address is in the database).                        *)
(***************************************************************************)
Persister == "persister"

UnlockInit ==
    /\ store = [a \in Addresses |-> EmptyStore]
    /\ locked = TRUE
    /\ ret = NoRet
    /\ idLog = <<>>
    /\ firstVal = EmptyMap
    /\ endpoint \in {[role |-> "server", q |-> q] : q \in Qs}
    /\ enq = <<>>
    /\ sent = <<>>
    /\ table = <<>>
    /\ wire = <<>>
    /\ incoming = <<>>
    /\ delivered = <<>>
    /\ calls = [c \in Addresses |-> IdleRequest]
    /\ \E address \in Addresses :
           lockKey = [pc |-> "locked", address |-> address, evoked |-> FALSE]
    /\ client = <<>>
    /\ \E registered \in SUBSET Addresses :
           conn = [listeners |-> registered, map |-> Free,
                   mutex |-> [a \in Addresses |-> Free]]

PersisterUnchanged == UNCHANGED <<store, idLog, firstVal, endpoint, enq, table, rxVars,
                                  calls, client>>

\* unlock_queue_for_persistence up to the DEL of the lock key
UnlockDel ==
    /\ lockKey.pc = "locked"
    /\ locked' = FALSE
    /\ lockKey' = [lockKey EXCEPT !.pc = "notify"]
    /\ ret' = [op |-> "unlock_queue_for_persistence", by |-> Persister]
    /\ UNCHANGED <<conn, sent>>
    /\ PersisterUnchanged

\* notify_persisted: listeners.lock().await.get(..), the guard held over the if let
NotifyPersisted ==
    /\ lockKey.pc = "notify"
    /\ conn.map = Free
    /\ IF lockKey.address \in conn.listeners
       THEN /\ conn' = [conn EXCEPT !.map = Persister]
            /\ lockKey' = [lockKey EXCEPT !.pc = "listener"]
       ELSE /\ conn' = conn
            /\ lockKey' = [lockKey EXCEPT !.pc = "done"]
    /\ ret' = [op |-> "notify_persisted", by |-> Persister]
    /\ UNCHANGED <<locked, sent>>
    /\ PersisterUnchanged

\* listener.lock().await inside notify_persisted
PersistedListenerLock ==
    /\ lockKey.pc = "listener"
    /\ conn.mutex[lockKey.address] = Free
    /\ conn' = [conn EXCEPT !.mutex[lockKey.address] = Persister]
    /\ lockKey' = [lockKey EXCEPT !.pc = "callback"]
    /\ ret' = [op |-> "listener_lock", by |-> Persister]
    /\ UNCHANGED <<locked, sent>>
    /\ PersisterUnchanged

\* send_persisted of the connection, then both guards are dropped and unlock returns
PersistedCallback ==
    /\ lockKey.pc = "callback"
    /\ \E wc \in {send_cached([store |-> store[lockKey.address],
                               conn  |-> [active |-> TRUE, panicked |-> FALSE],
                               sent  |-> <<>>],
                              locked, endpoint.q, FALSE)} :
           /\ store' = [store EXCEPT ![lockKey.address] = wc.store]
           /\ sent' = sent \o [i \in 1..Len(wc.sent) |->
                                  [guid |-> wc.sent[i].guid, to |-> lockKey.address]]
    /\ conn' = [conn EXCEPT !.map = Free, !.mutex[lockKey.address] = Free]
    /\ lockKey' = [lockKey EXCEPT !.pc = "done", !.evoked = TRUE]
    /\ ret' = [op |-> "send_persisted", by |-> Persister]
    /\ UNCHANGED <<locked, idLog, firstVal, endpoint, enq, table, rxVars, calls, client>>

UnlockNext ==
    \/ NotifyNext
    \/ UnlockDel
    \/ NotifyPersisted
    \/ PersistedListenerLock
    \/ PersistedCallback

\* the runtime keeps polling every task that can go on
SpecUnlockFair == UnlockInit /\ [][UnlockNext]_vars /\ WF_vars(UnlockNext)

\* C35 (as claimed): once the persister calls unlock_queue_for_persistence the lock
\* key is deleted and, when a listener is registered for the address, its persisted
\* callback is run and the call returns.
C35_UnlockRunsCallback ==
    (lockKey.pc = "locked" /\ lockKey.address \in conn.listeners)
        ~> (~locked /\ lockKey.pc = "done" /\ lockKey.evoked)

(***************************************************************************)
(* The message store of one device: the queue in the cache, the messages   *)
(* the persister has moved to the database (table), the connection's       *)
(* pending requests (calls) and its socket. wp is [store, conn, sent, db,  *)
(* pending]; accepted is the number of writes the socket takes before it   *)
(* fails.                                                                  *)
(***************************************************************************)
\* MessagesManager::get_messages_for_device: [cached_messages, db_messages].concat()
get_messages_for_device(wp, lock, cached_msg_only) ==
    LET cached == get_values(wp.store, lock, -1)
        db     == IF cached_msg_only THEN <<>> ELSE wp.db
    IN  [guids  |-> cached.guids \o [i \in 1..Len(db) |-> db[i].guid],
         values |-> cached.values \o [i \in 1..Len(db) |-> db[i].value]]

\* MessagesManager::delete: the guids from the cache, and from the database every
\* message of the address
delete(wp, message_guids) ==
    [wp EXCEPT !.store = remove(@, message_guids).st, !.db = <<>>]

\* WebSocketConnection::send_message where create_message returns Ok: a write the
\* socket takes is followed by delete, a refused one leaves everything as it is
send_stored_message(wp, guid, value, socket_ok) ==
    IF ~wp.conn.active \/ ~socket_ok THEN wp
    ELSE delete([wp EXCEPT !.sent = Append(@, [guid |-> guid, size |-> Len(value)]),
                           !.pending = @ \cup {guid}],
                <<guid>>)

\* the for loop of send_messages
RECURSIVE send_stored_envelopes(_, _, _)
send_stored_envelopes(wp, envelopes, accepted) ==
    IF envelopes.guids = <<>> THEN wp
    ELSE send_stored_envelopes(
             send_stored_message(wp, Head(envelopes.guids),
                                 BytesDecode(Head(envelopes.values)), accepted > 0),
             [guids |-> Tail(envelopes.guids), values |-> Tail(envelopes.values)],
             IF accepted > 0 THEN accepted - 1 ELSE 0)

\* AvailabilityListener::send_cached (cached_only) and send_persisted of the connection
send_available(wp, lock, cached_only, accepted) ==
    IF ~wp.conn.active THEN wp
    ELSE send_stored_envelopes(wp, get_messages_for_device(wp, lock, cached_only), accepted)

\* notify_cached and notify_persisted: the listener in the map, if any, is called; one
\* left behind by a closed connection finds itself not active and sends nothing
notify_listener(wp, lock, cached_only, accepted) ==
    IF wp.conn.listener = "live" THEN send_available(wp, lock, cached_only, accepted)
    ELSE wp

Stored == [store |-> store, conn |-> conn, sent |-> sent, db |-> table, pending |-> calls]

PersistInit ==
    /\ store = EmptyStore
    /\ locked = FALSE
    /\ ret = NoRet
    /\ idLog = <<>>
    /\ firstVal = EmptyMap
    /\ \E q \in Qs : endpoint = [role |-> "store", q |-> q]
    /\ enq = <<>>
    /\ sent = <<>>
    /\ table = <<>>
    /\ wire = <<>>
    /\ incoming = <<>>
    /\ delivered = <<>>
    /\ calls = {}
    /\ lockKey = <<>>
    /\ client = <<>>
    /\ conn = [stage |-> "closed", active |-> FALSE, listener |-> "none", panicked |-> FALSE]

\* what a handler leaves behind; refused: the socket failed at one of the writes
PersistReturns(op, wp, accepted) ==
    /\ store' = wp.store
    /\ conn' = wp.conn
    /\ sent' = wp.sent
    /\ table' = wp.db
    /\ calls' = wp.pending
    /\ ret' = [op |-> op, lock |-> locked,
               sending |-> conn.listener = "live" /\ conn.active,
               refused |-> Cardinality(store.queue) + Len(table) > accepted]
    /\ UNCHANGED <<idLog, firstVal, endpoint, rxVars, lockKey, client>>

\* MessagesManager::insert: MessageCache::insert stores the envelope and notifies
StoreMessage(size, accepted) ==
    /\ Len(enq) < MaxInserts
    /\ enq' = Append(enq, [guid |-> Uuid(Len(enq) + 1), lock |-> locked])
    /\ locked' = locked
    /\ \E wp \in {notify_listener(
                      [Stored EXCEPT
                          !.store = insert(@, Uuid(Len(enq) + 1),
                                           Serialize([tag |-> Len(enq) + 1, len |-> size])).st],
                      locked, TRUE, accepted)} :
           PersistReturns("insert", wp, accepted)

\* create_websocket_endpoint up to send_persisted, on a new connection object
ConnectDevice(accepted) ==
    /\ conn.stage = "closed"
    /\ UNCHANGED <<enq, locked>>
    /\ \E wp \in {send_available([Stored EXCEPT !.conn.stage = "upgraded",
                                                !.conn.active = TRUE,
                                                !.pending = {}],
                                 locked, FALSE, accepted)} :
           PersistReturns("send_persisted", wp, accepted)

\* create_websocket_endpoint from add_message_availability_listener on
RegisterListener ==
    /\ conn.stage = "upgraded"
    /\ conn' = [conn EXCEPT !.stage = "listening", !.listener = "live"]
    /\ ret' = [op |-> "add_message_availability_listener"]
    /\ UNCHANGED <<store, locked, idLog, firstVal, denimVars, rxVars, calls, lockKey, client>>

\* the socket closes; the entry in the listener map stays
DisconnectDevice ==
    /\ conn.stage # "closed"
    /\ conn' = [conn EXCEPT !.stage = "closed", !.active = FALSE,
                            !.listener = IF @ = "live" THEN "stale" ELSE @]
    /\ ret' = [op |-> "close"]
    /\ UNCHANGED <<store, locked, idLog, firstVal, denimVars, rxVars, calls, lockKey, client>>

\* WebSocketConnection::handle_response: the response to a pending request deletes again
HandleResponse(guid) ==
    /\ conn.active
    /\ guid \in calls
    /\ UNCHANGED <<enq, locked>>
    /\ \E wp \in {delete([Stored EXCEPT !.pending = @ \ {guid}], <<guid>>)} :
           PersistReturns("handle_response", wp, 0)

\* MessageCache::lock_queue_for_persistence
LockQueueForPersist ==
    /\ ~locked
    /\ locked' = TRUE
    /\ ret' = [op |-> "lock_queue_for_persistence"]
    /\ UNCHANGED <<store, idLog, firstVal, denimVars, rxVars, auxVars>>

\* the persister's pass over the locked queue: get_messages_to_persist reads the queue
\* whatever the lock, MessagesManager::persist_messages pushes to the database and
\* removes from the cache
PersistMessages ==
    /\ locked
    /\ store.queue # {}
    /\ \E messages \in {get_values(store, FALSE, -1)} :
           /\ table' = table \o [i \in 1..Len(messages.guids) |->
                                    [guid |-> messages.guids[i], value |-> messages.values[i]]]
           /\ store' = remove(store, messages.guids).st
    /\ ret' = [op |-> "persist_messages"]
    /\ UNCHANGED <<locked, idLog, firstVal, endpoint, enq, sent, rxVars, auxVars>>

\* MessageCache::unlock_queue_for_persistence: DEL of the lock key, then notify_persisted
UnlockQueueForPersist(accepted) ==
    /\ locked
    /\ locked' = FALSE
    /\ enq' = enq
    /\ \E wp \in {notify_listener(Stored, FALSE, FALSE, accepted)} :
           PersistReturns("unlock_queue_for_persistence", wp, accepted)

PersistNext ==
    \/ \E size \in PayloadLens, accepted \in 0..MaxInserts : StoreMessage(size, accepted)
    \/ \E accepted \in 0..MaxInserts : ConnectDevice(accepted)
    \/ RegisterListener
    \/ DisconnectDevice
    \/ \E guid \in calls : HandleResponse(guid)
    \/ LockQueueForPersist
    \/ PersistMessages
    \/ \E accepted \in 0..MaxInserts : UnlockQueueForPersist(accepted)

SpecPersist == PersistInit /\ [][PersistNext]_vars

StoredGuids == DOMAIN store.meta \cup {table[i].guid : i \in DOMAIN table}

\* C36 (as claimed): a message inserted while the queue is locked for persistence is
\* stored by the insert with nothing written to the socket, it is in the cache or in
\* the database for as long as it has not been written, and when
\* unlock_queue_for_persistence has run with the device connected and the socket
\* taking every write, the message has been written.
C36_LockedInsertDelivered ==
    /\ (ret.op = "insert" /\ ret.lock) =>
           enq[Len(enq)].guid \in DOMAIN store.meta \ SentGuids
    /\ \A i \in DOMAIN enq :
           enq[i].lock =>
               /\ enq[i].guid \in StoredGuids \cup SentGuids
               /\ (ret.op = "unlock_queue_for_persistence" /\ ret.sending /\ ~ret.refused)
                      => enq[i].guid \in SentGuids

\* C38 (as claimed): a message is removed from the cache and the database only once
\* it has been written to the socket of the device: every inserted message is stored
\* or has been written, whatever writes the socket refused and whenever the
\* connection was closed.
C38_RemovedOnlyAfterWritten ==
    \A i \in DOMAIN enq : enq[i].guid \in StoredGuids \cup SentGuids

\* C37 (as claimed): the listener map holds a listener for the address only while
\* the connection that registered it is open, so no callback is run on a closed
\* connection.
C37_ListenerOnlyWhileOpen ==
    conn.listener # "none" => (conn.listener = "live" /\ conn.active)

(***************************************************************************)
(* The unknown-flag specification: the chunks of one payload arrive in     *)
(* order at a receiving endpoint in batches, and before its Final there is *)
(* a chunk whose flag is none of Dummy, Final and a Data rank.             *)
(***************************************************************************)
\* i32 flags for which ChunkType::from has no variant
UnknownFlags == {FINAL + 1, FINAL + 5}

UnknownFlagInit ==
    /\ store = EmptyStore
    /\ locked = FALSE
    /\ ret = NoRet
    /\ idLog = <<>>
    /\ firstVal = EmptyMap
    /\ sent = <<>>
    /\ table = <<>>
    /\ incoming = <<>>
    /\ delivered = <<>>
    /\ AuxIdle
    /\ \E len \in PayloadLens, n \in CutSizes, b \in BatchSizes,
          role \in {"server", "client"}, flags \in UnknownFlags, size \in 0..1 :
          LET p       == [tag |-> 1, len |-> len]
              ordered == OrderedChunks(p, n)
          IN  \E place \in 1..Len(ordered) :
                  LET arrival == InsertAt(ordered, place, DenimChunk(Zeros(size), flags))
                  IN  /\ enq = <<[payload |-> p, behind |-> {}]>>
                      /\ endpoint = [role |-> role, arrival |-> arrival, unknown |-> place]
                      /\ wire = Batches(arrival, b)

SpecUnknownFlag == UnknownFlagInit /\ [][ReassemblyNext]_vars

\* C39 (as claimed): a chunk with an unknown flag crashes no call, is not kept among
\* the Data chunks the client stores, and the reassembly that meets it, the one the
\* Final sets off, returns an error and no payload.
C39_UnknownFlagRejected ==
    /\ ret # NoRet => ~ret.panic
    /\ endpoint.role = "client" =>
           \A i \in DOMAIN incoming : incoming[i].flags \notin UnknownFlags
    /\ (wire = <<>> /\ ret # NoRet) => (ret.failed /\ delivered = <<>>)

\* C40 (as claimed): the free-space arithmetic of the chunker does not underflow: a
\* send_message of the client, whatever the overt size, ends with no panic and with
\* a chunk list and a residual that are each at most ceil(size * q) bytes.
C40_FreeSpaceNeverUnderflows ==
    (endpoint.role = "client" /\ ret.op = "send_message") =>
        /\ ~ret.panic
        /\ SerializedSize(sent[Len(sent)].chunks) <= CeilOfProduct(ret.size, endpoint.q)
        /\ Len(sent[Len(sent)].ballast) <= CeilOfProduct(ret.size, endpoint.q)

====
